---------------------------- MODULE Spec2Model ----------------------------
(***************************************************************************)
(* Model of the ring clock firmware (techniccontroller/ringclock_esp8266): *)
(* the LEDRings object (src/ledrings.cpp), the clock face functions        *)
(* (src/ringclockfunctions.ino) and the parts of the sketch that call them *)
(* (src/ringclock_esp8266.ino).                                            *)
(*                                                                         *)
(* Numbers.  Colours are 24-bit values, channels are uint8_t.  A float     *)
(* factor is the record [num |-> n, den |-> d] standing for n/d.  The draw *)
(* factors used here are dyadic (d a power of two), so that every product  *)
(* and sum of interpolateColor24bit is exact in IEEE single precision and  *)
(* the conversion to uint8_t is the truncation written below.  The pixel   *)
(* progress factors of showMinutes are exact rationals.                    *)
(***************************************************************************)
EXTENDS Integers, Sequences, FiniteSets, TLC

----------------------------------------------------------------------------
(* Program constants *)

OUTER_RING_LED_COUNT == 91

INNER_RING_LED_COUNT == 12

DEFAULT_CURRENT_LIMIT == 9999

MILLIS_PER_MINUTE == 60000

(* Bound of the model: number of operations in one behaviour of Spec *)
MaxSteps == 3

(* the literals of the sketch: the watchdog's start value and the          *)
(* milliseconds a failed NTP update adds to lastNTPUpdate                  *)
WATCHDOG_START == 30

NTP_RETRY_EXTENSION == 10000

(* constants.h: the periods of the loop's tasks in ms and the current      *)
(* limit of the sketch in mA                                               *)
PERIOD_HEARTBEAT == 1000

PERIOD_CLOCK_UPDATE == 50

PERIOD_LED_UPDATE == 50

PERIOD_NTP_UPDATE == 30000

PERIOD_NIGHTMODE_CHECK == 20000

CURRENT_LIMIT_LED == 2500

OuterIdx == 0 .. (OUTER_RING_LED_COUNT - 1)

InnerIdx == 0 .. (INNER_RING_LED_COUNT - 1)

----------------------------------------------------------------------------
(* Integer helpers for the C arithmetic *)

(* C's integer division and remainder truncate toward zero *)
CDiv(a, n) == IF a >= 0 THEN a \div n ELSE -((-a) \div n)

CRem(a, n) == IF a >= 0 THEN a % n ELSE -((-a) % n)

(* conversion of an int to uint8_t / uint16_t *)
U8(x) == x % 256

U16(x) == x % 65536

----------------------------------------------------------------------------
(* Colours *)

(* (first, a plausible slip: red and blue in each other's place) *)
Color24bitSwapped(r, g, b) == (U8(b) * 65536) + (U8(g) * 256) + U8(r)

Color24bit(r, g, b) == (U8(r) * 65536) + (U8(g) * 256) + U8(b)

RedOf(c) == (c \div 65536) % 256

GreenOf(c) == (c \div 256) % 256

BlueOf(c) == c % 256

Black == Color24bit(0, 0, 0)

(* uint8_t r = r1 + (r2 - r1) * factor: the float value                   *)
(* (r1*den + (r2-r1)*num)/den converted to uint8_t by truncation.  For a   *)
(* factor in [0,1] the value lies between r1 and r2, hence in 0..255.      *)
(* (first, a plausible slip: the difference taken the wrong way round)     *)
InterpolateChannelAway(c1, c2, f) == U8(CDiv((c1 * f.den) + ((c1 - c2) * f.num), f.den))

(* (a plausible slip: the blend taken from color2 toward color1) *)
InterpolateChannelSwapped(c1, c2, f) ==
    U8(CDiv((c2 * f.den) + ((c1 - c2) * f.num), f.den))

InterpolateChannel(c1, c2, f) == U8(CDiv((c1 * f.den) + ((c2 - c1) * f.num), f.den))

interpolateColor24bit(color1, color2, f) ==
    Color24bit(InterpolateChannel(RedOf(color1), RedOf(color2), f),
               InterpolateChannel(GreenOf(color1), GreenOf(color2), f),
               InterpolateChannel(BlueOf(color1), BlueOf(color2), f))

(* calcEstimatedLEDCurrent: integer division at both steps *)
(* (first, a plausible slip: one division at the end instead of two) *)
calcEstimatedLEDCurrentOneDivision(color, brightness) ==
    U16((((20 * RedOf(color)) + (20 * GreenOf(color)) + (20 * BlueOf(color)))
          * brightness) \div (255 * 255))

calcEstimatedLEDCurrent(color, brightness) ==
    LET estimatedCurrent == ((20 * RedOf(color)) + (20 * GreenOf(color))
                              + (20 * BlueOf(color))) \div 255
    IN  U16((estimatedCurrent * brightness) \div 255)

----------------------------------------------------------------------------
VARIABLES
    targetOuterring,        \* LEDRings::targetOuterring[91]
    currentOuterRing,       \* LEDRings::currentOuterRing[91]
    targetInnerRing,        \* LEDRings::targetInnerRing[12]
    currentInnerRing,       \* LEDRings::currentInnerRing[12]
    brightnessOuterRing,    \* configured brightness, uint8_t
    brightnessInnerRing,
    currentLimit,           \* uint16_t
    offsetOuterRing,        \* int
    offsetInnerRing,
    outerRing,              \* the outer NeoPixel driver: what was handed to it
    innerRing,              \* the inner NeoPixel driver
    errorLogs,              \* number of "ERROR: pixel out of range" messages logged
    now,                    \* the last value read from millis()
    lastMinutes,            \* static of showMinutes
    timeOfLastMinuteChange, \* static of showMinutes
    sm,                     \* the locals of the last showMinutes call
    ntpOffset,              \* time source: milliseconds of the day at millis() = 0
    lastOp,                 \* the last operation and its arguments
    steps,                  \* number of operations so far
    ret,                    \* the value returned by the last call of a static function
    colorHours,             \* globals of the sketch
    colorMinutes,
    colorSeconds,
    nightMode,
    ledOff,
    nightModeStartHour,
    nightModeStartMin,
    nightModeEndHour,
    nightModeEndMin,
    lastheartbeat,
    lastStep,
    lastLedStep,
    lastNTPUpdate,
    lastNightmodeCheck,
    watchdogCounter,
    eepromData,             \* EEPROM: the RAM buffer read and written
    eepromFlash,            \* EEPROM: the flash sector, read at begin()
    iter,                   \* what the last iteration of loop() did
    hist,                   \* the NTP attempts and task executions so far
    calls                   \* the calls the last operation made on LEDRings, and
                            \* LEDRings on its two drivers, in order

ringVars == <<targetOuterring, currentOuterRing, targetInnerRing, currentInnerRing,
              brightnessOuterRing, brightnessInnerRing, currentLimit,
              offsetOuterRing, offsetInnerRing>>

hwVars == <<outerRing, innerRing>>

clockVars == <<now, lastMinutes, timeOfLastMinuteChange, sm, ntpOffset>>

timerVars == <<lastheartbeat, lastStep, lastLedStep, lastNTPUpdate, lastNightmodeCheck>>

nightVars == <<nightMode, nightModeStartHour, nightModeStartMin,
               nightModeEndHour, nightModeEndMin>>

eepromVars == <<eepromData, eepromFlash>>

colorVars == <<colorHours, colorMinutes, colorSeconds>>

sketchVars == <<ret, colorVars, nightVars, ledOff, timerVars, watchdogCounter,
                eepromVars, iter, hist>>

vars == <<ringVars, hwVars, errorLogs, clockVars, lastOp, steps, sketchVars, calls>>

----------------------------------------------------------------------------
(* Input sets of the model *)

(* 24-bit colours: the three default clock colours of the sketch, white   *)
(* and the darkest grey                                                    *)
ColorHoursDefault == Color24bit(200, 200, 0)

ColorMinutesDefault == Color24bit(0, 200, 200)

ColorSecondsDefault == Color24bit(200, 0, 200)

White == Color24bit(255, 255, 255)

Dim == Color24bit(1, 1, 1)

OuterPixelColors == {Dim, White}

InnerPixelColors == {White}

(* pixel arguments (uint16_t): the first and the last pixel, one past the *)
(* last and, for the inner ring, (uint16_t)-1                              *)
OuterPixelArgs == {0, OUTER_RING_LED_COUNT - 1, OUTER_RING_LED_COUNT}

InnerPixelArgs == {INNER_RING_LED_COUNT - 1, INNER_RING_LED_COUNT, 65535}

OuterBrightnessArgs == {0, 254}

InnerBrightnessArgs == {10}

LimitArgs == {0, 1000}

(* setup() uses (-5, 0); the others are below -length and above length *)
OffsetArgs == {<<-5, 0>>, <<-92, -13>>, <<100, 30>>}

Half == [num |-> 1, den |-> 2]

One == [num |-> 1, den |-> 1]

ThreeQuarters == [num |-> 3, den |-> 4]

SmoothFactors == {Half, ThreeQuarters, One}

(* hours handed to showHour (uint8_t); getHours24 gives 0 .. 23 *)
HourArgs == {0, 1, 3, 12, 13, 15, 23, 24}

HourColors == {ColorHoursDefault, White}

MinuteArgs == {0, 29, 45, 59}

(* readings of millis() *)
MillisArgs == {0, 330, 660, 30000, 59999, 61000}

(* the time of day at boot, in ms: 03:45:00.0, 03:45:30.0 and 03:58:59.9  *)
BootTimes == {13500000, 13530000, 14339900}

(* milliseconds between two clock updates of the loop; one pixel of the   *)
(* seconds sweep lasts 60000/91 = 659 ms                                   *)
TickGaps == {100, 300}

(* Bound of the model: the loop is followed up to this reading of millis() *)
MaxMillis == 125000

(* Bound of the model of the rendering loop: loop() is followed up to this *)
(* reading of millis()                                                     *)
MaxLiveMillis == 11180

(* Bounds of the model of the watchdog: loop() is followed up to this      *)
(* reading of millis(), and through this many restarts                     *)
MaxWatchdogMillis == 320000

MaxRestarts == 1

----------------------------------------------------------------------------
(* The LEDRings object *)

Op(name, args) == [op |-> name, arg |-> args]

Step(name, args) ==
    /\ steps < MaxSteps
    /\ steps' = steps + 1
    /\ lastOp' = Op(name, args)
    /\ UNCHANGED sketchVars

(* a call of the method name of object on ("ledrings", or one of its       *)
(* drivers "outerRing" and "innerRing") with the arguments args            *)
Call(on, name, args) == [on |-> on, call |-> name, arg |-> args]

(* the target buffer after flush*: every entry black *)
Flushed(Idx) == [i \in Idx |-> 0]

(* the range check of setPixelOuterRing / setPixelInnerRing on a uint16_t *)
(* (first, a plausible slip: an off-by-one range check)                    *)
PixelInRangeOffByOne(pixel, count) == ~(pixel > count)

PixelInRange(pixel, count) == ~(pixel >= count)

(* the target buffer after setPixel*Ring(pixel, color); a write past the   *)
(* end of the array lands in whatever follows it and is kept visible here  *)
(* as a new entry of the function                                          *)
SetPixelResult(target, count, pixel, color) ==
    IF PixelInRange(pixel, count)
    THEN [i \in (DOMAIN target) \cup {pixel} |-> IF i = pixel THEN color ELSE target[i]]
    ELSE target

SetPixelErrors(count, pixel) == IF PixelInRange(pixel, count) THEN 0 ELSE 1

----------------------------------------------------------------------------
(* The clock face: showHour and showMinutes *)

(* showHour(uint8_t hour, color): flushInnerRing, the 24h to 12h step and *)
(* setPixelInnerRing(hour-1, color), whose int argument is converted to    *)
(* uint16_t                                                                *)
(* (first, a plausible slip: the pixel of the hour itself, not of hour-1)   *)
HourPixelNoShift(hour) == U16(IF hour > 12 THEN hour - 12 ELSE hour)

(* (and another: midnight shown as twelve o'clock)                           *)
HourPixelMidnightAsTwelve(hour) ==
    U16((IF hour > 12 THEN hour - 12 ELSE IF hour = 0 THEN 12 ELSE hour) - 1)

HourPixel(hour) == U16((IF hour > 12 THEN hour - 12 ELSE hour) - 1)

ShowHourTarget(hour, color) ==
    SetPixelResult(Flushed(InnerIdx), INNER_RING_LED_COUNT, HourPixel(hour), color)

ShowHourErrors(hour) == SetPixelErrors(INNER_RING_LED_COUNT, HourPixel(hour))

(* The locals of showMinutes for the minute value, the elapsed time        *)
(* t = millis() - timeOfLastMinuteChange and the two colours.  A float     *)
(* progress is kept as a numerator over its denominator:                   *)
(*   progressSeconds * 91 = 91 t / 60000                                   *)
(*   progressMinutes * 91 = 91 (60000 minutes + t) / 3600000               *)
(* and (int) of a non-negative float is the floor.                         *)
ShowMinutesLocals(minutes, t, minutesColor, secondsColor) ==
    LET s91 == t * OUTER_RING_LED_COUNT
        m91 == ((MILLIS_PER_MINUTE * minutes) + t) * OUTER_RING_LED_COUNT
        mden == 60 * MILLIS_PER_MINUTE
    IN  [called |-> TRUE,
         minutes |-> minutes,
         colorMinutes |-> minutesColor,
         colorSeconds |-> secondsColor,
         timeSinceLastMinuteChange |-> t,
         activePixelSeconds |-> s91 \div MILLIS_PER_MINUTE,
         pixelProgressSeconds |-> [num |-> s91 % MILLIS_PER_MINUTE, den |-> MILLIS_PER_MINUTE],
         activePixelMinutes |-> m91 \div mden,
         pixelProgressMinutes |-> [num |-> m91 % mden, den |-> mden]]

(* 1 - factor *)
Complement(f) == [num |-> f.den - f.num, den |-> f.den]

(* the colour the loop of showMinutes sets for logical pixel i            *)
(* (first, a plausible slip: the minute arc drawn over the seconds comet)  *)
MinutePixelArcFirst(i, l) ==
    IF i < l.activePixelMinutes THEN l.colorMinutes
    ELSE IF i = l.activePixelMinutes
    THEN interpolateColor24bit(Black, l.colorMinutes, l.pixelProgressMinutes)
    ELSE IF i = l.activePixelSeconds - 1
    THEN interpolateColor24bit(Black, l.colorSeconds, Complement(l.pixelProgressSeconds))
    ELSE IF i = l.activePixelSeconds
    THEN interpolateColor24bit(Black, l.colorSeconds, l.pixelProgressSeconds)
    ELSE Black

MinutePixel(i, l) ==
    IF i = l.activePixelSeconds - 1
    THEN interpolateColor24bit(Black, l.colorSeconds, Complement(l.pixelProgressSeconds))
    ELSE IF i = l.activePixelSeconds
    THEN interpolateColor24bit(Black, l.colorSeconds, l.pixelProgressSeconds)
    ELSE IF i < l.activePixelMinutes THEN l.colorMinutes
    ELSE IF i = l.activePixelMinutes
    THEN interpolateColor24bit(Black, l.colorMinutes, l.pixelProgressMinutes)
    ELSE Black

(* flushOuterRing, then one setPixelOuterRing(i, ...) for i = 0 .. 90 *)
ShowMinutesTarget(l) == [i \in OuterIdx |-> MinutePixel(i, l)]

(* the calls showHour makes on LEDRings *)
ShowHourCalls(hour, color) ==
    << Call("ledrings", "flushInnerRing", <<>>),
       Call("ledrings", "setPixelInnerRing", <<HourPixel(hour), color>>) >>

(* the calls showMinutes makes on LEDRings *)
ShowMinutesCalls(l) ==
    << Call("ledrings", "flushOuterRing", <<>>) >>
    \o [k \in 1 .. OUTER_RING_LED_COUNT |->
           Call("ledrings", "setPixelOuterRing", <<k - 1, MinutePixel(k - 1, l)>>)]

----------------------------------------------------------------------------
(* Initial states *)

(* the clock face of 3:45, written by showTimeOnClock at the minute change *)
FaceOuter ==
    ShowMinutesTarget(ShowMinutesLocals(45, 0, ColorMinutesDefault, ColorSecondsDefault))

FaceInner == ShowHourTarget(3, ColorHoursDefault)

(* Buffer contents the object is started in: as constructed, or with a    *)
(* face written to the targets and drawn                                   *)
Scenes ==
    { [to |-> Flushed(OuterIdx), co |-> Flushed(OuterIdx),
       ti |-> Flushed(InnerIdx), ci |-> Flushed(InnerIdx)],
      [to |-> FaceOuter, co |-> FaceOuter,
       ti |-> FaceInner, ci |-> FaceInner] }

(* The LEDRings constructor and setupRings: brightness 255, the default    *)
(* current limit; the offsets of the global object are zero-initialized.  *)
(* The drivers hold the colours last drawn (with offsets 0).               *)
InitRings(scene) ==
    /\ targetOuterring = scene.to
    /\ currentOuterRing = scene.co
    /\ targetInnerRing = scene.ti
    /\ currentInnerRing = scene.ci
    /\ brightnessOuterRing = 255
    /\ brightnessInnerRing = 255
    /\ currentLimit = DEFAULT_CURRENT_LIMIT
    /\ offsetOuterRing = 0
    /\ offsetInnerRing = 0
    /\ outerRing = [pixels |-> scene.co, brightness |-> 255, rejected |-> 0]
    /\ innerRing = [pixels |-> scene.ci, brightness |-> 255, rejected |-> 0]
    /\ errorLogs = 0
    /\ calls = <<>>

(* the statics of showMinutes and the clock *)
InitClock(offset) ==
    /\ now = 0
    /\ lastMinutes = 0
    /\ timeOfLastMinuteChange = 0
    /\ sm = [called |-> FALSE]
    /\ ntpOffset = offset

(* the tasks of loop() *)
Tasks == {"heartbeat", "clock", "frame", "ntp", "nightcheck"}

NoCommand == [name |-> "none", arg |-> <<>>]

(* no iteration of loop() yet *)
NoIteration ==
    [t |-> 0, cmd |-> NoCommand, ran |-> {}, dark |-> FALSE, frames |-> <<>>,
     ntp |-> "none", fails |-> 0, restarted |-> FALSE]

NoHistory ==
    [lastRun |-> [task \in Tasks |-> -1], failsInARow |-> 0, lastFailedAt |-> -1,
     restarts |-> 0]

(* an EEPROM never written: every byte 0xFF *)
ErasedEeprom ==
    [NM_START_H |-> 255, NM_START_M |-> 255, NM_END_H |-> 255, NM_END_M |-> 255,
     BRIGHTNESS_INNER |-> 255, BRIGHTNESS_OUTER |-> 255,
     CH_RED |-> 255, CH_GREEN |-> 255, CH_BLUE |-> 255,
     CM_RED |-> 255, CM_GREEN |-> 255, CM_BLUE |-> 255,
     CS_RED |-> 255, CS_GREEN |-> 255, CS_BLUE |-> 255]

(* the initializers of the globals, run at millis() = t0, over an EEPROM   *)
(* holding image                                                           *)
InitGlobals(t0, image) ==
    /\ ret = 0
    /\ colorHours = ColorHoursDefault
    /\ colorMinutes = ColorMinutesDefault
    /\ colorSeconds = ColorSecondsDefault
    /\ nightMode = FALSE
    /\ ledOff = FALSE
    /\ nightModeStartHour = 22
    /\ nightModeStartMin = 0
    /\ nightModeEndHour = 7
    /\ nightModeEndMin = 0
    /\ lastheartbeat = t0
    /\ lastStep = t0
    /\ lastLedStep = t0
    /\ lastNTPUpdate = t0 - (PERIOD_NTP_UPDATE - 5000)
    /\ lastNightmodeCheck = t0
    /\ watchdogCounter = WATCHDOG_START
    /\ eepromData = image
    /\ eepromFlash = image
    /\ iter = NoIteration
    /\ hist = NoHistory

Init ==
    /\ \E scene \in Scenes : InitRings(scene)
    /\ InitClock(0)
    /\ InitGlobals(0, ErasedEeprom)
    /\ lastOp = Op("construct", <<>>)
    /\ steps = 0

----------------------------------------------------------------------------
(* The operations of LEDRings *)

SetOffsets(o) ==
    /\ Step("setOffsets", o)
    /\ calls' = <<>>
    /\ offsetOuterRing' = o[1]
    /\ offsetInnerRing' = o[2]
    /\ UNCHANGED <<targetOuterring, currentOuterRing, targetInnerRing, currentInnerRing,
                   brightnessOuterRing, brightnessInnerRing, currentLimit,
                   hwVars, errorLogs, clockVars>>

SetBrightnessOuterRing(brightness) ==
    /\ Step("setBrightnessOuterRing", <<brightness>>)
    /\ calls' = <<Call("outerRing", "setBrightness", <<U8(brightness)>>)>>
    /\ brightnessOuterRing' = U8(brightness)
    /\ outerRing' = [outerRing EXCEPT !.brightness = U8(brightness)]
    /\ UNCHANGED <<targetOuterring, currentOuterRing, targetInnerRing, currentInnerRing,
                   brightnessInnerRing, currentLimit, offsetOuterRing, offsetInnerRing,
                   innerRing, errorLogs, clockVars>>

SetBrightnessInnerRing(brightness) ==
    /\ Step("setBrightnessInnerRing", <<brightness>>)
    /\ calls' = <<Call("innerRing", "setBrightness", <<U8(brightness)>>)>>
    /\ brightnessInnerRing' = U8(brightness)
    /\ innerRing' = [innerRing EXCEPT !.brightness = U8(brightness)]
    /\ UNCHANGED <<targetOuterring, currentOuterRing, targetInnerRing, currentInnerRing,
                   brightnessOuterRing, currentLimit, offsetOuterRing, offsetInnerRing,
                   outerRing, errorLogs, clockVars>>

SetCurrentLimit(limit) ==
    /\ Step("setCurrentLimit", <<limit>>)
    /\ calls' = <<>>
    /\ currentLimit' = U16(limit)
    /\ UNCHANGED <<targetOuterring, currentOuterRing, targetInnerRing, currentInnerRing,
                   brightnessOuterRing, brightnessInnerRing, offsetOuterRing,
                   offsetInnerRing, hwVars, errorLogs, clockVars>>

(* getBrightnessOuterRing, getBrightnessInnerRing: the stored brightness   *)
(* (first, a plausible slip: the brightness the driver was last given)     *)
getBrightnessOuterRingOfDriver == outerRing.brightness

getBrightnessOuterRing == brightnessOuterRing

getBrightnessInnerRing == brightnessInnerRing

(* (a plausible slip: one flush function clearing the targets of both rings) *)
FlushOuterRingBoth ==
    /\ Step("flushOuterRing", <<>>)
    /\ calls' = <<>>
    /\ targetOuterring' = Flushed(OuterIdx)
    /\ targetInnerRing' = Flushed(InnerIdx)
    /\ UNCHANGED <<currentOuterRing, currentInnerRing,
                   brightnessOuterRing, brightnessInnerRing, currentLimit,
                   offsetOuterRing, offsetInnerRing, hwVars, errorLogs, clockVars>>

FlushOuterRing ==
    /\ Step("flushOuterRing", <<>>)
    /\ calls' = <<>>
    /\ targetOuterring' = Flushed(OuterIdx)
    /\ UNCHANGED <<currentOuterRing, targetInnerRing, currentInnerRing,
                   brightnessOuterRing, brightnessInnerRing, currentLimit,
                   offsetOuterRing, offsetInnerRing, hwVars, errorLogs, clockVars>>

FlushInnerRing ==
    /\ Step("flushInnerRing", <<>>)
    /\ calls' = <<>>
    /\ targetInnerRing' = Flushed(InnerIdx)
    /\ UNCHANGED <<targetOuterring, currentOuterRing, currentInnerRing,
                   brightnessOuterRing, brightnessInnerRing, currentLimit,
                   offsetOuterRing, offsetInnerRing, hwVars, errorLogs, clockVars>>

(* (a plausible slip: a pixel set in the displayed buffer as well) *)
SetPixelOuterRingThrough(pixel, color) ==
    /\ Step("setPixelOuterRing", <<pixel, color>>)
    /\ calls' = <<>>
    /\ targetOuterring' = SetPixelResult(targetOuterring, OUTER_RING_LED_COUNT, pixel, color)
    /\ currentOuterRing' = SetPixelResult(currentOuterRing, OUTER_RING_LED_COUNT, pixel, color)
    /\ errorLogs' = errorLogs + SetPixelErrors(OUTER_RING_LED_COUNT, pixel)
    /\ UNCHANGED <<targetInnerRing, currentInnerRing,
                   brightnessOuterRing, brightnessInnerRing, currentLimit,
                   offsetOuterRing, offsetInnerRing, hwVars, clockVars>>

SetPixelOuterRing(pixel, color) ==
    /\ Step("setPixelOuterRing", <<pixel, color>>)
    /\ calls' = <<>>
    /\ targetOuterring' = SetPixelResult(targetOuterring, OUTER_RING_LED_COUNT, pixel, color)
    /\ errorLogs' = errorLogs + SetPixelErrors(OUTER_RING_LED_COUNT, pixel)
    /\ UNCHANGED <<currentOuterRing, targetInnerRing, currentInnerRing,
                   brightnessOuterRing, brightnessInnerRing, currentLimit,
                   offsetOuterRing, offsetInnerRing, hwVars, clockVars>>

SetPixelInnerRing(pixel, color) ==
    /\ Step("setPixelInnerRing", <<pixel, color>>)
    /\ calls' = <<>>
    /\ targetInnerRing' = SetPixelResult(targetInnerRing, INNER_RING_LED_COUNT, pixel, color)
    /\ errorLogs' = errorLogs + SetPixelErrors(INNER_RING_LED_COUNT, pixel)
    /\ UNCHANGED <<targetOuterring, currentOuterRing, currentInnerRing,
                   brightnessOuterRing, brightnessInnerRing, currentLimit,
                   offsetOuterRing, offsetInnerRing, hwVars, clockVars>>

----------------------------------------------------------------------------
(* drawOnRings *)

(* int correctedPixel = (COUNT + i + offset) % COUNT, C's remainder *)
CorrectedPixel(count, i, offset) == CRem(count + i + offset, count)

(* the blended colours of one ring *)
NewColors(current, target, f) ==
    [i \in DOMAIN current |-> interpolateColor24bit(current[i], target[i], f)]

(* Adafruit_NeoPixel::setPixelColor(uint16_t n, c) ignores n >= numPixels; *)
(* a negative int index arrives as a large uint16_t                        *)
DriverAccepts(count, n) == n >= 0 /\ n < count

(* The loop hands the driver one setPixelColor(correctedPixel, newColor)   *)
(* per logical pixel i.  correctedPixel = p with p in 0..count-1 forces    *)
(* i = (p - offset) mod count, so physical pixel p has at most one writer  *)
(* and the order of the calls is immaterial: p takes the colour of that    *)
(* logical pixel if its call names p, and keeps its colour otherwise       *)
EmittedPixels(pixels, new, count, offset) ==
    [p \in DOMAIN pixels |->
        LET i == (p - offset) % count
        IN  IF CorrectedPixel(count, i, offset) = p THEN new[i] ELSE pixels[p]]

RejectedCalls(new, count, offset) ==
    Cardinality({i \in DOMAIN new : ~DriverAccepts(count, CorrectedPixel(count, i, offset))})

(* the uint16_t accumulator of one ring's loop, here over the pixels        *)
(* lo .. hi; the sum modulo 2^16 does not depend on how it is bracketed,   *)
(* and the halving keeps the evaluation shallow                            *)
(* (first, a plausible slip: an accumulator of eight bits)                  *)
RECURSIVE SumCurrentNarrow(_, _, _, _)
SumCurrentNarrow(colors, brightness, lo, hi) ==
    IF lo = hi THEN U8(calcEstimatedLEDCurrent(colors[lo], brightness))
    ELSE LET mid == (lo + hi) \div 2
         IN  U8(SumCurrentNarrow(colors, brightness, lo, mid)
                 + SumCurrentNarrow(colors, brightness, mid + 1, hi))

RECURSIVE SumCurrent(_, _, _, _)
SumCurrent(colors, brightness, lo, hi) ==
    IF lo = hi THEN calcEstimatedLEDCurrent(colors[lo], brightness)
    ELSE LET mid == (lo + hi) \div 2
         IN  U16(SumCurrent(colors, brightness, lo, mid)
                  + SumCurrent(colors, brightness, mid + 1, hi))

TotalCurrentOf(colors, brightness, n) == SumCurrent(colors, brightness, 0, n - 1)

(* uint8_t newBrightness = brightness * float(currentLimit)/float(total):  *)
(* the product is below 2^24 and exact; the quotient of two such integers  *)
(* is never rounded up to the next integer, so the truncation is the floor *)
(* of the exact quotient                                                   *)
ThrottledBrightness(brightness, limit, totalCurrent) ==
    U8((brightness * limit) \div totalCurrent)

(* the brightness handed to a ring's driver for this frame                 *)
(* (first, a plausible slip: the frame scaled whenever anything is lit)    *)
FrameBrightnessAlways(brightness, limit, totalCurrent) ==
    IF totalCurrent > 0
    THEN ThrottledBrightness(brightness, limit, totalCurrent)
    ELSE brightness

(* (a plausible slip: a frame after a throttled one stays dimmed) *)
FrameBrightnessSticky(brightness, limit, totalCurrent) ==
    IF totalCurrent > limit
    THEN ThrottledBrightness(brightness, limit, totalCurrent)
    ELSE IF outerRing.brightness < brightnessOuterRing
    THEN brightness \div 2
    ELSE brightness

FrameBrightness(brightness, limit, totalCurrent) ==
    IF totalCurrent > limit
    THEN ThrottledBrightness(brightness, limit, totalCurrent)
    ELSE brightness

(* totalCurrent of a frame with the given displayed colours and brightnesses *)
TotalCurrent(colorsOuter, colorsInner, brightnessOuter, brightnessInner) ==
    U16(TotalCurrentOf(colorsOuter, brightnessOuter, OUTER_RING_LED_COUNT)
         + TotalCurrentOf(colorsInner, brightnessInner, INNER_RING_LED_COUNT))

(* the calls drawOnRings makes on the two drivers: the pixels of the outer *)
(* and of the inner ring, the brightness of the frame, the two show()      *)
(* (first, a plausible slip: the rings shown before the brightness is set) *)
DrawCallsShowFirst(newOuter, newInner, offsetOuter, offsetInner, frameOuter, frameInner) ==
    [k \in 1 .. OUTER_RING_LED_COUNT |->
        Call("outerRing", "setPixelColor",
             <<CorrectedPixel(OUTER_RING_LED_COUNT, k - 1, offsetOuter), newOuter[k - 1]>>)]
    \o [k \in 1 .. INNER_RING_LED_COUNT |->
           Call("innerRing", "setPixelColor",
                <<CorrectedPixel(INNER_RING_LED_COUNT, k - 1, offsetInner), newInner[k - 1]>>)]
    \o << Call("outerRing", "show", <<>>),
          Call("innerRing", "show", <<>>),
          Call("outerRing", "setBrightness", <<frameOuter>>),
          Call("innerRing", "setBrightness", <<frameInner>>) >>

DrawCalls(newOuter, newInner, offsetOuter, offsetInner, frameOuter, frameInner) ==
    [k \in 1 .. OUTER_RING_LED_COUNT |->
        Call("outerRing", "setPixelColor",
             <<CorrectedPixel(OUTER_RING_LED_COUNT, k - 1, offsetOuter), newOuter[k - 1]>>)]
    \o [k \in 1 .. INNER_RING_LED_COUNT |->
           Call("innerRing", "setPixelColor",
                <<CorrectedPixel(INNER_RING_LED_COUNT, k - 1, offsetInner), newInner[k - 1]>>)]
    \o << Call("outerRing", "setBrightness", <<frameOuter>>),
          Call("innerRing", "setBrightness", <<frameInner>>),
          Call("outerRing", "show", <<>>),
          Call("innerRing", "show", <<>>) >>

DrawOnRings(f) ==
    /\ currentOuterRing' = NewColors(currentOuterRing, targetOuterring, f)
    /\ currentInnerRing' = NewColors(currentInnerRing, targetInnerRing, f)
    /\ LET totalCurrent == TotalCurrent(currentOuterRing', currentInnerRing',
                                        brightnessOuterRing, brightnessInnerRing)
       IN  /\ outerRing' =
                [pixels |-> EmittedPixels(outerRing.pixels, currentOuterRing',
                                          OUTER_RING_LED_COUNT, offsetOuterRing),
                 brightness |-> FrameBrightness(brightnessOuterRing, currentLimit,
                                                totalCurrent),
                 rejected |-> RejectedCalls(currentOuterRing', OUTER_RING_LED_COUNT,
                                            offsetOuterRing)]
           /\ innerRing' =
                [pixels |-> EmittedPixels(innerRing.pixels, currentInnerRing',
                                          INNER_RING_LED_COUNT, offsetInnerRing),
                 brightness |-> FrameBrightness(brightnessInnerRing, currentLimit,
                                                totalCurrent),
                 rejected |-> RejectedCalls(currentInnerRing', INNER_RING_LED_COUNT,
                                            offsetInnerRing)]
    /\ calls' = DrawCalls(currentOuterRing', currentInnerRing',
                          offsetOuterRing, offsetInnerRing,
                          outerRing'.brightness, innerRing'.brightness)
    /\ UNCHANGED <<targetOuterring, targetInnerRing, brightnessOuterRing,
                   brightnessInnerRing, currentLimit, offsetOuterRing,
                   offsetInnerRing, errorLogs>>

(* drawOnRingsInstant(): drawOnRings(1.0)                                  *)
(* (first, a plausible slip: an instant draw that goes half the way)       *)
InstantFactorHalf == Half

InstantFactor == One

DrawOnRingsInstant ==
    /\ Step("drawOnRingsInstant", <<>>)
    /\ DrawOnRings(InstantFactor)
    /\ UNCHANGED clockVars

DrawOnRingsSmooth(f) ==
    /\ Step("drawOnRingsSmooth", <<f>>)
    /\ DrawOnRings(f)
    /\ UNCHANGED clockVars

----------------------------------------------------------------------------
(* The clock face functions of ringclockfunctions.ino *)

ShowHourBody(hour, color) ==
    /\ targetInnerRing' = ShowHourTarget(U8(hour), color)
    /\ errorLogs' = errorLogs + ShowHourErrors(U8(hour))

(* t is the value millis() returns during the call *)
ShowMinutesBody(minutes, t, minutesColor, secondsColor) ==
    /\ now' = t
    /\ timeOfLastMinuteChange' =
         IF U8(minutes) # lastMinutes THEN t ELSE timeOfLastMinuteChange
    /\ lastMinutes' = U8(minutes)
    /\ sm' = ShowMinutesLocals(U8(minutes), t - timeOfLastMinuteChange',
                               minutesColor, secondsColor)
    /\ targetOuterring' = ShowMinutesTarget(sm')
    /\ UNCHANGED ntpOffset

ShowHour(hour, color) ==
    /\ Step("showHour", <<hour, color>>)
    /\ ShowHourBody(hour, color)
    /\ calls' = ShowHourCalls(U8(hour), color)
    /\ UNCHANGED <<targetOuterring, currentOuterRing, currentInnerRing,
                   brightnessOuterRing, brightnessInnerRing, currentLimit,
                   offsetOuterRing, offsetInnerRing, hwVars, clockVars>>

ShowMinutes(minutes, t, minutesColor, secondsColor) ==
    /\ Step("showMinutes", <<minutes, t, minutesColor, secondsColor>>)
    /\ t >= now
    /\ ShowMinutesBody(minutes, t, minutesColor, secondsColor)
    /\ calls' = ShowMinutesCalls(sm')
    /\ UNCHANGED <<currentOuterRing, targetInnerRing, currentInnerRing,
                   brightnessOuterRing, brightnessInnerRing, currentLimit,
                   offsetOuterRing, offsetInnerRing, hwVars, errorLogs>>

(* showTimeOnClock(hour, minutes, colorHours, colorMinutes, colorSeconds)  *)
(* with millis() = t during the call                                       *)
ShowTimeOnClock(hour, minutes, t) ==
    /\ Step("showTimeOnClock", <<hour, minutes, t>>)
    /\ t >= now
    /\ ShowHourBody(hour, ColorHoursDefault)
    /\ ShowMinutesBody(minutes, t, ColorMinutesDefault, ColorSecondsDefault)
    /\ calls' = ShowHourCalls(U8(hour), ColorHoursDefault) \o ShowMinutesCalls(sm')
    /\ UNCHANGED <<currentOuterRing, currentInnerRing,
                   brightnessOuterRing, brightnessInnerRing, currentLimit,
                   offsetOuterRing, offsetInnerRing, hwVars>>

----------------------------------------------------------------------------
(* The time source and the clock update of loop() *)

(* NTPClientPlus: the hour and the minute of the time of day at millis() = t *)
getHours24(t) == ((ntpOffset + t) \div (60 * MILLIS_PER_MINUTE)) % 24

getMinutes(t) == ((ntpOffset + t) \div MILLIS_PER_MINUTE) % 60

(* loop(): the iteration that updates the clock face with                  *)
(* showTimeOnClock, dt ms after the last reading of millis(), with the     *)
(* colours of the sketch                                                   *)
LoopClockUpdate(dt) ==
    LET t == now + dt
    IN  /\ t <= MaxMillis
        /\ ShowHourBody(getHours24(t), ColorHoursDefault)
        /\ ShowMinutesBody(getMinutes(t), t, ColorMinutesDefault, ColorSecondsDefault)
        /\ calls' = ShowHourCalls(U8(getHours24(t)), ColorHoursDefault)
                       \o ShowMinutesCalls(sm')
        /\ lastOp' = Op("showTimeOnClock", <<getHours24(t), getMinutes(t), t,
                         ColorHoursDefault, ColorMinutesDefault, ColorSecondsDefault>>)
        /\ UNCHANGED <<currentOuterRing, currentInnerRing,
                       brightnessOuterRing, brightnessInnerRing, currentLimit,
                       offsetOuterRing, offsetInnerRing, hwVars, steps, sketchVars>>

----------------------------------------------------------------------------
(* The LEDRings object used through its public interface *)

Next ==
    \/ \E o \in OffsetArgs : SetOffsets(o)
    \/ \E b \in OuterBrightnessArgs : SetBrightnessOuterRing(b)
    \/ \E b \in InnerBrightnessArgs : SetBrightnessInnerRing(b)
    \/ \E l \in LimitArgs : SetCurrentLimit(l)
    \/ FlushOuterRing
    \/ FlushInnerRing
    \/ \E p \in OuterPixelArgs, c \in OuterPixelColors : SetPixelOuterRing(p, c)
    \/ \E p \in InnerPixelArgs, c \in InnerPixelColors : SetPixelInnerRing(p, c)
    \/ DrawOnRingsInstant
    \/ \E f \in SmoothFactors : DrawOnRingsSmooth(f)

Spec == Init /\ [][Next]_vars

(* The clock face functions called on any hour, minute and millis() *)
NextFace ==
    \/ \E h \in HourArgs, c \in HourColors : ShowHour(h, c)
    \/ \E m \in MinuteArgs, t \in MillisArgs :
          ShowMinutes(m, t, ColorMinutesDefault, ColorSecondsDefault)
    \/ DrawOnRingsInstant

SpecFace == Init /\ [][NextFace]_vars

(* Every operation that writes a buffer, on a few arguments each *)
NextBuffers ==
    \/ SetOffsets(<<-5, 0>>)
    \/ SetBrightnessOuterRing(100)
    \/ SetBrightnessInnerRing(100)
    \/ SetCurrentLimit(1000)
    \/ FlushOuterRing
    \/ FlushInnerRing
    \/ \E p \in {0, OUTER_RING_LED_COUNT} : SetPixelOuterRing(p, White)
    \/ \E p \in {0, INNER_RING_LED_COUNT} : SetPixelInnerRing(p, White)
    \/ ShowHour(7, ColorHoursDefault)
    \/ \E t \in {0, 30000} : ShowMinutes(20, t, ColorMinutesDefault, ColorSecondsDefault)
    \/ ShowTimeOnClock(9, 30, 30000)
    \/ DrawOnRingsInstant
    \/ DrawOnRingsSmooth(Half)

SpecBuffers == Init /\ [][NextBuffers]_vars

(* The object after a throttled frame: the face of 3:45 drawn instantly    *)
(* under a current limit of 1000 mA                                        *)
ThrottledLimit == 1000

InitThrottled ==
    LET totalCurrent == TotalCurrent(FaceOuter, FaceInner, 255, 255)
    IN  /\ targetOuterring = FaceOuter
        /\ currentOuterRing = FaceOuter
        /\ targetInnerRing = FaceInner
        /\ currentInnerRing = FaceInner
        /\ brightnessOuterRing = 255
        /\ brightnessInnerRing = 255
        /\ currentLimit = ThrottledLimit
        /\ offsetOuterRing = 0
        /\ offsetInnerRing = 0
        /\ outerRing = [pixels |-> FaceOuter,
                        brightness |-> FrameBrightness(255, ThrottledLimit, totalCurrent),
                        rejected |-> 0]
        /\ innerRing = [pixels |-> FaceInner,
                        brightness |-> FrameBrightness(255, ThrottledLimit, totalCurrent),
                        rejected |-> 0]
        /\ errorLogs = 0
        /\ calls = DrawCalls(FaceOuter, FaceInner, 0, 0,
                             outerRing.brightness, innerRing.brightness)
        /\ InitClock(0)
        /\ InitGlobals(0, ErasedEeprom)
        /\ lastOp = Op("drawOnRingsInstant", <<>>)
        /\ steps = 0

(* what follows a throttled frame: the limit raised or lowered, a ring     *)
(* dimmed or cleared, a pixel set, and the next frames                     *)
NextFrames ==
    \/ \E l \in {DEFAULT_CURRENT_LIMIT, ThrottledLimit, 100} : SetCurrentLimit(l)
    \/ \E b \in {100, 255} : SetBrightnessOuterRing(b)
    \/ FlushOuterRing
    \/ FlushInnerRing
    \/ SetPixelOuterRing(0, White)
    \/ DrawOnRingsInstant
    \/ DrawOnRingsSmooth(Half)

SpecFrames == InitThrottled /\ [][NextFrames]_vars

(* The running clock: the loop updates the face from the time source *)
InitRunning ==
    /\ InitRings(CHOOSE scene \in Scenes : scene.to = Flushed(OuterIdx))
    /\ \E offset \in BootTimes : InitClock(offset)
    /\ InitGlobals(0, ErasedEeprom)
    /\ lastOp = Op("construct", <<>>)
    /\ steps = 0

NextRunning == \E dt \in TickGaps : LoopClockUpdate(dt)

SpecClock == InitRunning /\ [][NextRunning]_vars

----------------------------------------------------------------------------
(* The sketch: configuration, commands and loop().  The functions below    *)
(* work on the state as a record S with one field per variable, so that    *)
(* the calls of one iteration can be applied one after the other           *)

Sketch ==
    [targetOuterring |-> targetOuterring, currentOuterRing |-> currentOuterRing,
     targetInnerRing |-> targetInnerRing, currentInnerRing |-> currentInnerRing,
     brightnessOuterRing |-> brightnessOuterRing,
     brightnessInnerRing |-> brightnessInnerRing,
     currentLimit |-> currentLimit,
     offsetOuterRing |-> offsetOuterRing, offsetInnerRing |-> offsetInnerRing,
     outerRing |-> outerRing, innerRing |-> innerRing, errorLogs |-> errorLogs,
     lastMinutes |-> lastMinutes, timeOfLastMinuteChange |-> timeOfLastMinuteChange,
     sm |-> sm, ntpOffset |-> ntpOffset,
     colorHours |-> colorHours, colorMinutes |-> colorMinutes,
     colorSeconds |-> colorSeconds,
     nightMode |-> nightMode, ledOff |-> ledOff,
     nightModeStartHour |-> nightModeStartHour, nightModeStartMin |-> nightModeStartMin,
     nightModeEndHour |-> nightModeEndHour, nightModeEndMin |-> nightModeEndMin,
     lastheartbeat |-> lastheartbeat, lastStep |-> lastStep, lastLedStep |-> lastLedStep,
     lastNTPUpdate |-> lastNTPUpdate, lastNightmodeCheck |-> lastNightmodeCheck,
     watchdogCounter |-> watchdogCounter,
     eepromData |-> eepromData, eepromFlash |-> eepromFlash,
     iter |-> iter, hist |-> hist, now |-> now, calls |-> calls]

(* getRGBColorFromEEPROM: the stored colour, or the default of a colour    *)
(* whose channels sum to less than 50                                      *)
getRGBColorFromEEPROM(red, green, blue) ==
    IF red + green + blue < 50
    THEN Color24bit(200, 200, 0)
    ELSE Color24bit(red, green, blue)

loadColorsFromEEPROM(S) ==
    LET e == S.eepromData
    IN  [S EXCEPT !.colorHours = getRGBColorFromEEPROM(e.CH_RED, e.CH_GREEN, e.CH_BLUE),
                  !.colorMinutes = getRGBColorFromEEPROM(e.CM_RED, e.CM_GREEN, e.CM_BLUE),
                  !.colorSeconds = getRGBColorFromEEPROM(e.CS_RED, e.CS_GREEN, e.CS_BLUE)]

(* the defaults taken for night-mode times out of range *)
NightStartHour(h) == IF h > 23 THEN 22 ELSE h

NightEndHour(h) == IF h > 23 THEN 7 ELSE h

NightMinute(m) == IF m > 59 THEN 0 ELSE m

loadNightmodeSettingsFromEEPROM(S) ==
    LET e == S.eepromData
    IN  [S EXCEPT !.nightModeStartHour = NightStartHour(e.NM_START_H),
                  !.nightModeStartMin = NightMinute(e.NM_START_M),
                  !.nightModeEndHour = NightEndHour(e.NM_END_H),
                  !.nightModeEndMin = NightMinute(e.NM_END_M)]

(* the lower limit of the brightness settings                              *)
(* (first, a plausible slip: the limit left out)                           *)
BrightnessFloorNone(b) == b

BrightnessFloor(b) == IF b < 10 THEN 10 ELSE b

(* setBrightnessInnerRing(bIR); setBrightnessOuterRing(bOR) *)
WithBrightness(S, bIR, bOR) ==
    [S EXCEPT !.brightnessInnerRing = bIR,
              !.innerRing = [@ EXCEPT !.brightness = bIR],
              !.brightnessOuterRing = bOR,
              !.outerRing = [@ EXCEPT !.brightness = bOR],
              !.calls = @ \o << Call("innerRing", "setBrightness", <<bIR>>),
                                Call("outerRing", "setBrightness", <<bOR>>) >>]

loadBrightnessSettingsFromEEPROM(S) ==
    WithBrightness(S, BrightnessFloor(S.eepromData.BRIGHTNESS_INNER),
                      BrightnessFloor(S.eepromData.BRIGHTNESS_OUTER))

(* setColorHours / setColorMinutes / setColorSeconds(uint8_t red, green,   *)
(* blue): the colour, its three EEPROM bytes, and EEPROM.commit()          *)
WithEepromColor(e, which, red, green, blue) ==
    CASE which = "col_hours" ->
           [e EXCEPT !.CH_RED = red, !.CH_GREEN = green, !.CH_BLUE = blue]
      [] which = "col_minutes" ->
           [e EXCEPT !.CM_RED = red, !.CM_GREEN = green, !.CM_BLUE = blue]
      [] which = "col_seconds" ->
           [e EXCEPT !.CS_RED = red, !.CS_GREEN = green, !.CS_BLUE = blue]

setColor(S, which, r, g, b) ==
    LET color == Color24bit(U8(r), U8(g), U8(b))
        data == WithEepromColor(S.eepromData, which, U8(r), U8(g), U8(b))
    IN  [S EXCEPT !.colorHours = IF which = "col_hours" THEN color ELSE @,
                  !.colorMinutes = IF which = "col_minutes" THEN color ELSE @,
                  !.colorSeconds = IF which = "col_seconds" THEN color ELSE @,
                  !.eepromData = data,
                  !.eepromFlash = data]

(* a frame shown by the drivers: who showed it, whether a pixel of it is   *)
(* lit, and whether nightMode or ledOff was set at that moment             *)
FrameOf(by, S, lit) == [by |-> by, lit |-> lit, dark |-> S.nightMode \/ S.ledOff]

Lit(pixels) == \E p \in DOMAIN pixels : pixels[p] # 0

(* runQuickLEDTest: each pixel of both drivers lit in turn and shown, then *)
(* clear() and show(); it blocks for the sum of its delays                 *)
LedTestMillis == (INNER_RING_LED_COUNT * 100) + (OUTER_RING_LED_COUNT * 10) + 200

runQuickLEDTest(S) ==
    [S EXCEPT !.outerRing = [@ EXCEPT !.pixels = Flushed(OuterIdx)],
              !.innerRing = [@ EXCEPT !.pixels = Flushed(InnerIdx)],
              !.iter = [@ EXCEPT !.frames =
                           Append(Append(@, FrameOf("ledtest", S, TRUE)),
                                  FrameOf("ledtest", S, FALSE))]]

(* handleCommand, branch "setting": String::toInt values assigned to       *)
(* uint8_t, the defaults and the brightness floor, EEPROM.write of the six *)
(* bytes (no commit), setBrightness*, and lastNightmodeCheck = 0           *)
handleSetting(S, a) ==
    LET startHour == NightStartHour(U8(a[1]))
        startMin == NightMinute(U8(a[2]))
        endHour == NightEndHour(U8(a[3]))
        endMin == NightMinute(U8(a[4]))
        brightnessIR == BrightnessFloor(U8(a[5]))
        brightnessOR == BrightnessFloor(U8(a[6]))
        T == [S EXCEPT !.nightModeStartHour = startHour,
                       !.nightModeStartMin = startMin,
                       !.nightModeEndHour = endHour,
                       !.nightModeEndMin = endMin,
                       !.eepromData = [@ EXCEPT !.NM_START_H = startHour,
                                                !.NM_START_M = startMin,
                                                !.NM_END_H = endHour,
                                                !.NM_END_M = endMin,
                                                !.BRIGHTNESS_INNER = brightnessIR,
                                                !.BRIGHTNESS_OUTER = brightnessOR],
                       !.lastNightmodeCheck = 0]
    IN  WithBrightness(T, brightnessIR, brightnessOR)

(* handleCommand, on the request server.handleClient() received *)
handleCommand(S, cmd) ==
    CASE cmd.name \in {"col_hours", "col_minutes", "col_seconds"} ->
           setColor(S, cmd.name, cmd.arg[1], cmd.arg[2], cmd.arg[3])
      [] cmd.name = "ledoff" -> [S EXCEPT !.ledOff = (cmd.arg[1] = "1")]
      [] cmd.name = "setting" -> handleSetting(S, cmd.arg)
      [] cmd.name = "resetwifi" -> runQuickLEDTest(S)
      [] OTHER -> S

(* millis() - last > period, in unsigned long: a last beyond millis()      *)
(* wraps to a difference above every period                                *)
Due(t, last, period) == IF t >= last THEN t - last > period ELSE TRUE

Ran(S, task, t) ==
    [S EXCEPT !.iter = [@ EXCEPT !.ran = @ \cup {task}],
              !.hist = [@ EXCEPT !.lastRun = [@ EXCEPT ![task] = t]]]

heartbeat(S, t) ==
    IF Due(t, S.lastheartbeat, PERIOD_HEARTBEAT)
    THEN Ran([S EXCEPT !.lastheartbeat = t], "heartbeat", t)
    ELSE S

(* showTimeOnClock(hour, minutes, colorHours, colorMinutes, colorSeconds)  *)
(* at millis() = t                                                         *)
showTimeOnClock(S, hour, minutes, t) ==
    LET changed == IF U8(minutes) # S.lastMinutes THEN t ELSE S.timeOfLastMinuteChange
        locals == ShowMinutesLocals(U8(minutes), t - changed, S.colorMinutes, S.colorSeconds)
    IN  [S EXCEPT !.targetInnerRing = ShowHourTarget(U8(hour), S.colorHours),
                  !.errorLogs = @ + ShowHourErrors(U8(hour)),
                  !.timeOfLastMinuteChange = changed,
                  !.lastMinutes = U8(minutes),
                  !.sm = locals,
                  !.targetOuterring = ShowMinutesTarget(locals),
                  !.calls = @ \o ShowHourCalls(U8(hour), S.colorHours)
                              \o ShowMinutesCalls(locals)]

HoursAt(S, t) == ((S.ntpOffset + t) \div (60 * MILLIS_PER_MINUTE)) % 24

MinutesAt(S, t) == ((S.ntpOffset + t) \div MILLIS_PER_MINUTE) % 60

(* loop(), lines 234-240                                                    *)
(* (first, a plausible slip: no clock update while an NTP update has       *)
(* failed and none has succeeded since)                                    *)
clockUpdateWhenSynced(S, t) ==
    IF Due(t, S.lastStep, PERIOD_CLOCK_UPDATE) /\ ~S.nightMode /\ ~S.ledOff
       /\ S.watchdogCounter = WATCHDOG_START
    THEN Ran([showTimeOnClock(S, HoursAt(S, t), MinutesAt(S, t), t) EXCEPT !.lastStep = t],
             "clock", t)
    ELSE S

clockUpdate(S, t) ==
    IF Due(t, S.lastStep, PERIOD_CLOCK_UPDATE) /\ ~S.nightMode /\ ~S.ledOff
    THEN Ran([showTimeOnClock(S, HoursAt(S, t), MinutesAt(S, t), t) EXCEPT !.lastStep = t],
             "clock", t)
    ELSE S

(* drawOnRings(factor) *)
drawOnRings(S, f) ==
    LET newOuter == NewColors(S.currentOuterRing, S.targetOuterring, f)
        newInner == NewColors(S.currentInnerRing, S.targetInnerRing, f)
        totalCurrent == TotalCurrent(newOuter, newInner,
                                     S.brightnessOuterRing, S.brightnessInnerRing)
        outer == [pixels |-> EmittedPixels(S.outerRing.pixels, newOuter,
                                           OUTER_RING_LED_COUNT, S.offsetOuterRing),
                  brightness |-> FrameBrightness(S.brightnessOuterRing, S.currentLimit,
                                                 totalCurrent),
                  rejected |-> RejectedCalls(newOuter, OUTER_RING_LED_COUNT,
                                             S.offsetOuterRing)]
        inner == [pixels |-> EmittedPixels(S.innerRing.pixels, newInner,
                                           INNER_RING_LED_COUNT, S.offsetInnerRing),
                  brightness |-> FrameBrightness(S.brightnessInnerRing, S.currentLimit,
                                                 totalCurrent),
                  rejected |-> RejectedCalls(newInner, INNER_RING_LED_COUNT,
                                             S.offsetInnerRing)]
    IN  [S EXCEPT !.currentOuterRing = newOuter,
                  !.currentInnerRing = newInner,
                  !.outerRing = outer,
                  !.innerRing = inner,
                  !.calls = @ \o DrawCalls(newOuter, newInner,
                                           S.offsetOuterRing, S.offsetInnerRing,
                                           outer.brightness, inner.brightness),
                  !.iter = [@ EXCEPT !.frames =
                               Append(@, FrameOf("drawOnRings", S,
                                                 Lit(outer.pixels) \/ Lit(inner.pixels)))]]

(* loop(), lines 242-252: with ledOff or nightMode both targets are     *)
(* flushed and drawn instantly, in every iteration; otherwise the frame    *)
(* is drawn when its period has passed                                     *)
render(S, t) ==
    LET marked == [S EXCEPT !.iter = [@ EXCEPT !.dark = S.ledOff \/ S.nightMode]]
    IN  IF S.ledOff \/ S.nightMode
        THEN Ran(drawOnRings([marked EXCEPT !.targetInnerRing = Flushed(InnerIdx),
                                            !.targetOuterring = Flushed(OuterIdx),
                                            !.calls = @ \o
                                              << Call("ledrings", "flushInnerRing", <<>>),
                                                 Call("ledrings", "flushOuterRing", <<>>) >>],
                             InstantFactor),
                 "frame", t)
        ELSE IF Due(t, S.lastLedStep, PERIOD_LED_UPDATE)
             THEN Ran([drawOnRings(marked, One) EXCEPT !.lastLedStep = t], "frame", t)
             ELSE marked

(* the results of NTPClientPlus::updateNTP(): 0 success, -1 timeout,       *)
(* 1 too large a time difference, 2 time not valid                         *)
NtpResults == {0, -1, 1, 2}

(* the watchdog after a successful update                                  *)
(* (first, a plausible slip: a counter that no success resets)             *)
WatchdogAfterSuccessKept(counter) == counter

WatchdogAfterSuccess(counter) == WATCHDOG_START

(* loop(), lines 254-296: the NTP update, its retry and the watchdog *)
ntpUpdate(S, t, res) ==
    IF Due(t, S.lastNTPUpdate, PERIOD_NTP_UPDATE)
    THEN LET counter == IF res = 0 THEN WatchdogAfterSuccess(S.watchdogCounter)
                        ELSE S.watchdogCounter - 1
             fails == IF res = 0 THEN 0 ELSE S.hist.failsInARow + 1
             T == [S EXCEPT !.lastNTPUpdate = IF res = 0 THEN t
                                             ELSE @ + NTP_RETRY_EXTENSION,
                            !.watchdogCounter = counter,
                            !.iter = [@ EXCEPT !.ntp = IF res = 0 THEN "ok" ELSE "failed",
                                               !.fails = fails,
                                               !.restarted = (counter <= 0)],
                            !.hist = [@ EXCEPT !.failsInARow = fails,
                                               !.lastFailedAt = IF res = 0 THEN -1 ELSE t]]
         IN  Ran(T, "ntp", t)
    ELSE S

(* the night window, times in minutes of the day *)
InNightWindow(current, start, end) ==
    IF start < end THEN start < current /\ current < end
    ELSE IF start > end THEN current > start \/ current < end
    ELSE FALSE

(* loop(), lines 298-321 *)
nightmodeCheck(S, t) ==
    IF Due(t, S.lastNightmodeCheck, PERIOD_NIGHTMODE_CHECK)
    THEN Ran([S EXCEPT !.nightMode =
                           InNightWindow(HoursAt(S, t) * 60 + MinutesAt(S, t),
                                         S.nightModeStartHour * 60 + S.nightModeStartMin,
                                         S.nightModeEndHour * 60 + S.nightModeEndMin),
                       !.lastNightmodeCheck = t],
             "nightcheck", t)
    ELSE S

(* The globals as initialized and setup() run over the EEPROM image flash, *)
(* setup() returning at millis() = duration, the time of day at            *)
(* millis() = 0 being timeOfDay.  The LED test and the IP display of a     *)
(* cold boot end with both rings flushed and drawn, so every buffer and    *)
(* both drivers are black when loop() starts, after either kind of reset.  *)
AfterSetup(flash, duration, timeOfDay) ==
    LET G == [targetOuterring |-> Flushed(OuterIdx), currentOuterRing |-> Flushed(OuterIdx),
              targetInnerRing |-> Flushed(InnerIdx), currentInnerRing |-> Flushed(InnerIdx),
              brightnessOuterRing |-> 255, brightnessInnerRing |-> 255,
              currentLimit |-> CURRENT_LIMIT_LED,
              offsetOuterRing |-> -5, offsetInnerRing |-> 0,
              outerRing |-> [pixels |-> Flushed(OuterIdx), brightness |-> 255, rejected |-> 0],
              innerRing |-> [pixels |-> Flushed(InnerIdx), brightness |-> 255, rejected |-> 0],
              errorLogs |-> 0,
              lastMinutes |-> 0, timeOfLastMinuteChange |-> 0,
              sm |-> [called |-> FALSE], ntpOffset |-> timeOfDay,
              colorHours |-> ColorHoursDefault, colorMinutes |-> ColorMinutesDefault,
              colorSeconds |-> ColorSecondsDefault,
              nightMode |-> FALSE, ledOff |-> FALSE,
              nightModeStartHour |-> 22, nightModeStartMin |-> 0,
              nightModeEndHour |-> 7, nightModeEndMin |-> 0,
              lastheartbeat |-> 0, lastStep |-> 0, lastLedStep |-> 0,
              lastNTPUpdate |-> 0 - (PERIOD_NTP_UPDATE - 5000), lastNightmodeCheck |-> 0,
              watchdogCounter |-> WATCHDOG_START,
              eepromData |-> flash, eepromFlash |-> flash,
              iter |-> NoIteration, hist |-> NoHistory, now |-> duration,
              calls |-> <<>>]
    IN  [loadBrightnessSettingsFromEEPROM(loadNightmodeSettingsFromEEPROM(
             loadColorsFromEEPROM(G)))
            EXCEPT !.calls = <<>>]

MillisPerDay == 24 * 60 * MILLIS_PER_MINUTE

(* delay(100) and ESP.restart(): the sketch starts over from the flash,    *)
(* millis() from 0, the time of day going on                               *)
restart(S, t, duration) ==
    [AfterSetup(S.eepromFlash, duration, (S.ntpOffset + t + 100) % MillisPerDay)
        EXCEPT !.iter = S.iter,
               !.hist = [NoHistory EXCEPT !.restarts = S.hist.restarts + 1]]

(* One iteration of loop(), entered dt ms after the last reading of        *)
(* millis(), server.handleClient() delivering cmd and ntp.updateNTP()      *)
(* returning res if it is called; a restart takes duration ms of setup()   *)
loop(S, dt, cmd, res, duration) ==
    LET S0 == [S EXCEPT !.iter = [NoIteration EXCEPT !.cmd = cmd], !.calls = <<>>]
        S1 == handleCommand(S0, cmd)
        t == S.now + dt + (IF cmd.name = "resetwifi" THEN LedTestMillis ELSE 0)
        S2 == [S1 EXCEPT !.now = t, !.iter = [@ EXCEPT !.t = t]]
        S3 == ntpUpdate(render(clockUpdate(heartbeat(S2, t), t), t), t, res)
    IN  IF S3.iter.restarted THEN restart(S3, t, duration)
        ELSE nightmodeCheck(S3, t)

(* the variables hold the state S *)
Holds(S) ==
    /\ targetOuterring = S.targetOuterring
    /\ currentOuterRing = S.currentOuterRing
    /\ targetInnerRing = S.targetInnerRing
    /\ currentInnerRing = S.currentInnerRing
    /\ brightnessOuterRing = S.brightnessOuterRing
    /\ brightnessInnerRing = S.brightnessInnerRing
    /\ currentLimit = S.currentLimit
    /\ offsetOuterRing = S.offsetOuterRing
    /\ offsetInnerRing = S.offsetInnerRing
    /\ outerRing = S.outerRing
    /\ innerRing = S.innerRing
    /\ errorLogs = S.errorLogs
    /\ now = S.now
    /\ lastMinutes = S.lastMinutes
    /\ timeOfLastMinuteChange = S.timeOfLastMinuteChange
    /\ sm = S.sm
    /\ ntpOffset = S.ntpOffset
    /\ colorHours = S.colorHours
    /\ colorMinutes = S.colorMinutes
    /\ colorSeconds = S.colorSeconds
    /\ nightMode = S.nightMode
    /\ ledOff = S.ledOff
    /\ nightModeStartHour = S.nightModeStartHour
    /\ nightModeStartMin = S.nightModeStartMin
    /\ nightModeEndHour = S.nightModeEndHour
    /\ nightModeEndMin = S.nightModeEndMin
    /\ lastheartbeat = S.lastheartbeat
    /\ lastStep = S.lastStep
    /\ lastLedStep = S.lastLedStep
    /\ lastNTPUpdate = S.lastNTPUpdate
    /\ lastNightmodeCheck = S.lastNightmodeCheck
    /\ watchdogCounter = S.watchdogCounter
    /\ eepromData = S.eepromData
    /\ eepromFlash = S.eepromFlash
    /\ iter = S.iter
    /\ hist = S.hist
    /\ calls = S.calls

(* the variables take the state S *)
Becomes(S) ==
    /\ targetOuterring' = S.targetOuterring
    /\ currentOuterRing' = S.currentOuterRing
    /\ targetInnerRing' = S.targetInnerRing
    /\ currentInnerRing' = S.currentInnerRing
    /\ brightnessOuterRing' = S.brightnessOuterRing
    /\ brightnessInnerRing' = S.brightnessInnerRing
    /\ currentLimit' = S.currentLimit
    /\ offsetOuterRing' = S.offsetOuterRing
    /\ offsetInnerRing' = S.offsetInnerRing
    /\ outerRing' = S.outerRing
    /\ innerRing' = S.innerRing
    /\ errorLogs' = S.errorLogs
    /\ now' = S.now
    /\ lastMinutes' = S.lastMinutes
    /\ timeOfLastMinuteChange' = S.timeOfLastMinuteChange
    /\ sm' = S.sm
    /\ ntpOffset' = S.ntpOffset
    /\ colorHours' = S.colorHours
    /\ colorMinutes' = S.colorMinutes
    /\ colorSeconds' = S.colorSeconds
    /\ nightMode' = S.nightMode
    /\ ledOff' = S.ledOff
    /\ nightModeStartHour' = S.nightModeStartHour
    /\ nightModeStartMin' = S.nightModeStartMin
    /\ nightModeEndHour' = S.nightModeEndHour
    /\ nightModeEndMin' = S.nightModeEndMin
    /\ lastheartbeat' = S.lastheartbeat
    /\ lastStep' = S.lastStep
    /\ lastLedStep' = S.lastLedStep
    /\ lastNTPUpdate' = S.lastNTPUpdate
    /\ lastNightmodeCheck' = S.lastNightmodeCheck
    /\ watchdogCounter' = S.watchdogCounter
    /\ eepromData' = S.eepromData
    /\ eepromFlash' = S.eepromFlash
    /\ iter' = S.iter
    /\ hist' = S.hist
    /\ calls' = S.calls

(* the time of day at boot, in ms: 12:00 and, inside the default night     *)
(* window, 22:30                                                           *)
Noon == 12 * 60 * MILLIS_PER_MINUTE

LateEvening == ((22 * 60) + 30) * MILLIS_PER_MINUTE

(* what setup() takes: a cold boot blocks for the LED test, the IP display *)
(* and the delays, 10410 ms, and for as long as the WiFi takes to connect; *)
(* a software restart for 2100 ms and the WiFi                             *)
ColdSetupMillis == {11000, 21000}

RestartSetupMillis == {2200}

(* milliseconds between two iterations of loop(): an idle pass, and a pass *)
(* after handleOTA() or handleClient() blocked for a transfer              *)
LoopGaps == {10, 21000}

LoopCommands ==
    { NoCommand,
      [name |-> "ledoff", arg |-> <<"1">>],
      [name |-> "setting", arg |-> <<23, 0, 6, 30, 128, 64>>],
      [name |-> "resetwifi", arg |-> <<>>] }

(* One iteration of loop() *)
Loop(dt, cmd, res, duration) ==
    /\ Becomes(loop(Sketch, dt, cmd, res, duration))
    /\ lastOp' = Op("loop", <<dt, cmd>>)
    /\ UNCHANGED ret

InitLoop ==
    /\ \E duration \in ColdSetupMillis, timeOfDay \in {Noon, LateEvening} :
          Holds(AfterSetup(ErasedEeprom, duration, timeOfDay))
    /\ lastOp = Op("setup", <<>>)
    /\ steps = 0
    /\ ret = 0

(* updateNTP() succeeding, or failing with a timeout *)
LoopNtpResults == {0, -1}

NextLoop ==
    \E dt \in LoopGaps, cmd \in LoopCommands, res \in LoopNtpResults,
       duration \in RestartSetupMillis :
        /\ steps < MaxSteps
        /\ steps' = steps + 1
        /\ Loop(dt, cmd, res, duration)

(* The sketch: setup() and then loop() over and over *)
SpecLoop == InitLoop /\ [][NextLoop]_vars

(* EEPROM images setup() may find: never written, and with the brightness  *)
(* bytes below and at the lower limit                                      *)
EepromImages ==
    { ErasedEeprom,
      [ErasedEeprom EXCEPT !.BRIGHTNESS_INNER = 0, !.BRIGHTNESS_OUTER = 9],
      [ErasedEeprom EXCEPT !.BRIGHTNESS_INNER = 10, !.BRIGHTNESS_OUTER = 200] }

(* the values of a 'setting' request after String::toInt(): night-mode     *)
(* start and end, brightness of the inner and of the outer ring            *)
SettingArgs ==
    { <<22, 0, 7, 0, 0, 256>>,
      <<22, 0, 7, 0, 9, 10>>,
      <<25, 61, 24, 60, 255, 265>>,
      <<11, 30, 13, 15, 300, 5>>,
      <<22, 0, 7, 0, -1, 100>> }

SettingCommands ==
    { [name |-> "setting", arg |-> a] : a \in SettingArgs }
    \cup { [name |-> "col_hours", arg |-> <<0, 300, 20>>] }

InitSettings ==
    /\ \E flash \in EepromImages : Holds(AfterSetup(flash, 11000, Noon))
    /\ lastOp = Op("setup", <<>>)
    /\ steps = 0
    /\ ret = 0

NextSettings ==
    \E cmd \in SettingCommands, res \in NtpResults, duration \in RestartSetupMillis :
        /\ steps < MaxSteps
        /\ steps' = steps + 1
        /\ Loop(10, cmd, res, duration)

(* The sketch configured: setup() over any EEPROM image, then loop()       *)
(* receiving requests that change the settings                             *)
SpecSettings == InitSettings /\ [][NextSettings]_vars

(* milliseconds between two iterations of a loop() that finds the network  *)
(* slow: every iteration after a failed update is due for the next one     *)
WatchdogGap == 10001

InitWatchdog ==
    /\ Holds(AfterSetup(ErasedEeprom, 11000, Noon))
    /\ lastOp = Op("setup", <<>>)
    /\ steps = 0
    /\ ret = 0

NextWatchdog ==
    \E res \in NtpResults, duration \in RestartSetupMillis :
        /\ now + WatchdogGap <= MaxWatchdogMillis
        /\ hist.restarts < MaxRestarts
        /\ Loop(WatchdogGap, NoCommand, res, duration)
        /\ UNCHANGED steps

(* The sketch left alone for minutes, its NTP updates failing or not *)
SpecWatchdog == InitWatchdog /\ [][NextWatchdog]_vars

(* the time of day at boot, in ms: 11:59:30, half a minute before a full   *)
(* hour                                                                    *)
BeforeNoon == Noon - 30000

(* the LEDs switched off and on again by request *)
ResumeCommands ==
    { NoCommand,
      [name |-> "ledoff", arg |-> <<"1">>],
      [name |-> "ledoff", arg |-> <<"0">>] }

InitResume ==
    /\ Holds(AfterSetup(ErasedEeprom, 21000, BeforeNoon))
    /\ lastOp = Op("setup", <<>>)
    /\ steps = 0
    /\ ret = 0

NextResume ==
    \E dt \in LoopGaps, cmd \in ResumeCommands, res \in LoopNtpResults,
       duration \in RestartSetupMillis :
        /\ steps < MaxSteps
        /\ steps' = steps + 1
        /\ Loop(dt, cmd, res, duration)

(* The sketch started shortly before a full hour, its LEDs switched off    *)
(* and on again                                                            *)
SpecResume == InitResume /\ [][NextResume]_vars

(* times of day at boot, in ms: half a minute before the default night     *)
(* window (22:00 to 7:00) starts, and half a minute before it ends         *)
BeforeNight == ((21 * 60) + 59) * MILLIS_PER_MINUTE + 30000

BeforeMorning == ((6 * 60) + 59) * MILLIS_PER_MINUTE + 30000

(* a window within one day, and an empty one *)
NightCommands ==
    { NoCommand,
      [name |-> "setting", arg |-> <<22, 0, 23, 0, 128, 64>>],
      [name |-> "setting", arg |-> <<22, 0, 22, 0, 128, 64>>] }

InitNight ==
    /\ \E timeOfDay \in {BeforeNight, BeforeMorning} :
          Holds(AfterSetup(ErasedEeprom, 21000, timeOfDay))
    /\ lastOp = Op("setup", <<>>)
    /\ steps = 0
    /\ ret = 0

NextNight ==
    \E dt \in LoopGaps, cmd \in NightCommands, res \in LoopNtpResults,
       duration \in RestartSetupMillis :
        /\ steps < MaxSteps
        /\ steps' = steps + 1
        /\ Loop(dt, cmd, res, duration)

(* The sketch running over the start and over the end of a night window *)
SpecNight == InitNight /\ [][NextNight]_vars

(* milliseconds between two iterations of loop(): idle passes, shorter     *)
(* than the period of the clock update                                     *)
LiveGaps == {10, 30}

InitLive ==
    /\ Holds(AfterSetup(ErasedEeprom, 11000, Noon))
    /\ lastOp = Op("setup", <<>>)
    /\ steps = 0
    /\ ret = 0

NextLive ==
    \E dt \in LiveGaps, cmd \in ResumeCommands, res \in LoopNtpResults,
       duration \in RestartSetupMillis :
        /\ now + dt <= MaxLiveMillis
        /\ Loop(dt, cmd, res, duration)
        /\ UNCHANGED steps

(* millis() read in a later pass of loop() *)
TimeAdvances ==
    /\ now + 10 <= MaxLiveMillis
    /\ now' \in {now + dt : dt \in LiveGaps}

(* The sketch rendering: the Arduino core calls loop() again and again and *)
(* millis() goes on, so a pass of loop() that can be made is made          *)
SpecLive == InitLive /\ [][NextLive]_vars /\ WF_now(TimeAdvances)

(* both rings lit white all over, set pixel by pixel and drawn *)
WhiteScene ==
    [to |-> [i \in OuterIdx |-> White], co |-> [i \in OuterIdx |-> White],
     ti |-> [i \in InnerIdx |-> White], ci |-> [i \in InnerIdx |-> White]]

InitBright ==
    /\ \E scene \in Scenes \cup {WhiteScene} : InitRings(scene)
    /\ InitClock(0)
    /\ InitGlobals(0, ErasedEeprom)
    /\ lastOp = Op("construct", <<>>)
    /\ steps = 0

NextBright ==
    \/ \E b \in {10, 128, 255} : SetBrightnessOuterRing(b)
    \/ \E b \in {10, 255} : SetBrightnessInnerRing(b)
    \/ \E l \in {DEFAULT_CURRENT_LIMIT, ThrottledLimit} : SetCurrentLimit(l)
    \/ FlushOuterRing
    \/ \E p \in {0, OUTER_RING_LED_COUNT - 1} : SetPixelOuterRing(p, White)
    \/ \E p \in {0, INNER_RING_LED_COUNT - 1} : SetPixelInnerRing(p, ColorHoursDefault)
    \/ DrawOnRingsInstant
    \/ DrawOnRingsSmooth(Half)

(* The rings drawn from dark to white all over, at any brightness *)
SpecBright == InitBright /\ [][NextBright]_vars

----------------------------------------------------------------------------
(* The static functions of LEDRings called on their own *)

ChannelArgs == {0, 1, 127, 128, 255}

Zero == [num |-> 0, den |-> 1]

BlendColors ==
    {Black, Dim, White, ColorHoursDefault, ColorMinutesDefault, ColorSecondsDefault,
     Color24bit(255, 0, 1), Color24bit(1, 2, 3)}

BlendFactors == {Zero, Half, One}

EstimateChannels == {0, 13, 254, 255}

EstimateBrightness == {0, 1, 127, 254, 255}

Returns(name, args, value) ==
    /\ lastOp' = Op(name, args)
    /\ ret' = value
    /\ UNCHANGED <<ringVars, hwVars, errorLogs, clockVars, steps, colorVars, nightVars, ledOff,
                   timerVars, watchdogCounter, eepromVars, iter, hist, calls>>

CallColor24bit(r, g, b) == Returns("Color24bit", <<r, g, b>>, Color24bit(r, g, b))

CallInterpolateColor24bit(color1, color2, factor) ==
    Returns("interpolateColor24bit", <<color1, color2, factor>>,
            interpolateColor24bit(color1, color2, factor))

CallCalcEstimatedLEDCurrent(color, brightness) ==
    Returns("calcEstimatedLEDCurrent", <<color, brightness>>,
            calcEstimatedLEDCurrent(color, brightness))

NextPure ==
    \/ \E r \in ChannelArgs, g \in ChannelArgs, b \in ChannelArgs : CallColor24bit(r, g, b)
    \/ \E c1 \in BlendColors, c2 \in BlendColors, f \in BlendFactors :
          CallInterpolateColor24bit(c1, c2, f)
    \/ \E r \in EstimateChannels, g \in EstimateChannels, b \in EstimateChannels,
          brightness \in EstimateBrightness :
          CallCalcEstimatedLEDCurrent(Color24bit(r, g, b), brightness)

SpecPure == Init /\ [][NextPure]_vars

----------------------------------------------------------------------------
(* Properties *)

Channels(c) == <<RedOf(c), GreenOf(c), BlueOf(c)>>

Abs(x) == IF x < 0 THEN -x ELSE x

DrawOps == {"drawOnRingsInstant", "drawOnRingsSmooth"}

(* C1: after drawOnRingsInstant, whatever the buffers held before, every   *)
(* pixel of both rings has current = target, and the targets are as before *)
C1_InstantDrawSetsCurrentToTarget ==
    [][lastOp'.op = "drawOnRingsInstant" =>
          /\ currentOuterRing' = targetOuterring'
          /\ currentInnerRing' = targetInnerRing'
          /\ targetOuterring' = targetOuterring
          /\ targetInnerRing' = targetInnerRing]_vars

(* an instant draw has brought a pixel set to white, and the hour pixel of *)
(* the face, to the displayed buffers                                      *)
C1_Witness ==
    /\ lastOp.op = "drawOnRingsInstant"
    /\ targetOuterring[0] = White
    /\ currentOuterRing[0] = White
    /\ currentInnerRing = targetInnerRing

(* C2: a smooth draw with a factor strictly between 0 and 1 strictly       *)
(* decreases the distance to the target of every channel that has not yet  *)
(* reached it, whether the target is above or below                        *)
ChannelsApproach(current, next, target) ==
    \A i \in DOMAIN current : \A k \in 1 .. 3 :
        Channels(current[i])[k] # Channels(target[i])[k] =>
            Abs(Channels(next[i])[k] - Channels(target[i])[k])
              < Abs(Channels(current[i])[k] - Channels(target[i])[k])

C2_SmoothDrawStrictlyDecreasesDistance ==
    [][(lastOp'.op = "drawOnRingsSmooth" /\ lastOp'.arg[1].num < lastOp'.arg[1].den) =>
          /\ ChannelsApproach(currentOuterRing, currentOuterRing', targetOuterring)
          /\ ChannelsApproach(currentInnerRing, currentInnerRing', targetInnerRing)]_vars

(* C3: in a frame whose estimate exceeds currentLimit, the estimate taken  *)
(* again with the brightnesses the frame emits is at most currentLimit     *)
(* plus one unit of rounding                                               *)
ConfiguredEstimate ==
    TotalCurrent(currentOuterRing, currentInnerRing,
                 brightnessOuterRing, brightnessInnerRing)

EmittedEstimate ==
    TotalCurrent(currentOuterRing, currentInnerRing,
                 outerRing.brightness, innerRing.brightness)

C3_ThrottledEstimateWithinLimit ==
    (lastOp.op \in DrawOps /\ ConfiguredEstimate > currentLimit) =>
        EmittedEstimate <= currentLimit + 1

C5_OffsetIsModulus ==
    lastOp.op = "drawOnRingsInstant" =>
        /\ \A i \in OuterIdx :
              outerRing.pixels[(i + offsetOuterRing) % OUTER_RING_LED_COUNT]
                = targetOuterring[i]
        /\ \A i \in InnerIdx :
              innerRing.pixels[(i + offsetInnerRing) % INNER_RING_LED_COUNT]
                = targetInnerRing[i]
        /\ outerRing.rejected = 0
        /\ innerRing.rejected = 0

(* C6: setPixelOuterRing with pixel >= 91 and setPixelInnerRing with       *)
(* pixel >= 12 change no target entry and log the error; in range they     *)
(* write that one entry and log nothing; no call changes the other ring    *)
(* or the extent of a buffer                                               *)
SetPixelEffect(target, next, count, pixel, color) ==
    IF pixel >= count
    THEN next = target /\ errorLogs' = errorLogs + 1
    ELSE /\ next = [target EXCEPT ![pixel] = color]
         /\ errorLogs' = errorLogs

C6_SetPixelIsRangeChecked ==
    [][/\ lastOp'.op = "setPixelOuterRing" =>
            /\ SetPixelEffect(targetOuterring, targetOuterring', OUTER_RING_LED_COUNT,
                              lastOp'.arg[1], lastOp'.arg[2])
            /\ targetInnerRing' = targetInnerRing
       /\ lastOp'.op = "setPixelInnerRing" =>
            /\ SetPixelEffect(targetInnerRing, targetInnerRing', INNER_RING_LED_COUNT,
                              lastOp'.arg[1], lastOp'.arg[2])
            /\ targetOuterring' = targetOuterring
       /\ DOMAIN targetOuterring' = OuterIdx
       /\ DOMAIN targetInnerRing' = InnerIdx]_vars

(* a rejected call (pixel 91 of the outer ring) after an accepted one *)
C6_Witness ==
    /\ lastOp = Op("setPixelOuterRing", <<OUTER_RING_LED_COUNT, White>>)
    /\ errorLogs = 1
    /\ targetOuterring[OUTER_RING_LED_COUNT - 1] = Dim
    /\ targetInnerRing[INNER_RING_LED_COUNT - 1] = White

(* C7: after showHour(h, color) with h in 1 .. 12 the inner-ring target    *)
(* has color at index h-1 and black everywhere else, whatever it held      *)
(* before; with h in 13 .. 24 it is the target of showHour(h-12, color),   *)
(* color at index h-13; a non-black color leaves one non-black pixel       *)
OnlyPixel(index, color) == [i \in InnerIdx |-> IF i = index THEN color ELSE Black]

C7_ShowHourLightsOnePixel ==
    LET h == lastOp.arg[1]
        color == lastOp.arg[2]
    IN  (lastOp.op = "showHour" /\ h \in 1 .. 24) =>
            /\ h \in 1 .. 12 => targetInnerRing = OnlyPixel(h - 1, color)
            /\ h \in 13 .. 24 => targetInnerRing = OnlyPixel(h - 13, color)
            /\ color # Black =>
                  Cardinality({i \in InnerIdx : targetInnerRing[i] # Black}) = 1

(* showHour(24, white) over a face that showed 3 o'clock: pixel 11 alone *)
C7_Witness ==
    /\ lastOp = Op("showHour", <<24, White>>)
    /\ targetInnerRing[11] = White
    /\ targetInnerRing[2] = Black
    /\ currentInnerRing[2] = ColorHoursDefault

(* C8: after showMinutes, target[activePixelSeconds - 1] is the tail blend  *)
(* and target[activePixelSeconds] the head blend of the seconds comet,     *)
(* also inside the minute arc; every other pixel i is colorMinutes for     *)
(* i < activePixelMinutes, the blend of colorMinutes by                    *)
(* pixelProgressMinutes for i = activePixelMinutes, black beyond           *)
C8_ShowMinutesColouring ==
    sm.called =>
        \A i \in OuterIdx :
            /\ i = sm.activePixelSeconds - 1 =>
                  targetOuterring[i] =
                    interpolateColor24bit(Black, sm.colorSeconds,
                                          Complement(sm.pixelProgressSeconds))
            /\ i = sm.activePixelSeconds =>
                  targetOuterring[i] =
                    interpolateColor24bit(Black, sm.colorSeconds, sm.pixelProgressSeconds)
            /\ i \notin {sm.activePixelSeconds - 1, sm.activePixelSeconds} =>
                  /\ i < sm.activePixelMinutes => targetOuterring[i] = sm.colorMinutes
                  /\ i = sm.activePixelMinutes =>
                        targetOuterring[i] =
                          interpolateColor24bit(Black, sm.colorMinutes,
                                                sm.pixelProgressMinutes)
                  /\ i > sm.activePixelMinutes => targetOuterring[i] = Black

(* the comet inside the minute arc: at 45 minutes and 660 ms the head is   *)
(* pixel 1 and the tail pixel 0, both below the arc's boundary and neither *)
(* in the colour of the arc                                                *)
C8_Witness ==
    /\ lastOp.op = "showMinutes"
    /\ sm.called
    /\ sm.activePixelSeconds = 1
    /\ sm.activePixelMinutes > 60
    /\ sm.pixelProgressSeconds.num > 0
    /\ targetOuterring[0] \notin {Black, sm.colorMinutes}
    /\ targetOuterring[1] \notin {Black, sm.colorMinutes}
    /\ targetOuterring[2] = sm.colorMinutes

(* C9: between two consecutive showMinutes ticks of the running clock,     *)
(* the tick of a minute change included, activePixelSeconds and            *)
(* activePixelMinutes each move by at most one index step, counted         *)
(* circularly on the 91 pixels                                             *)
CircDist(a, b) ==
    LET d == (a - b) % OUTER_RING_LED_COUNT
    IN  IF d <= OUTER_RING_LED_COUNT - d THEN d ELSE OUTER_RING_LED_COUNT - d

C9_HeadsMoveOneStepPerTick ==
    [][(sm.called /\ lastOp'.op = "showTimeOnClock") =>
          /\ CircDist(sm.activePixelSeconds, sm'.activePixelSeconds) <= 1
          /\ CircDist(sm.activePixelMinutes, sm'.activePixelMinutes) <= 1]_vars

(* C10: one drawOnRingsSmooth(factor), factor in (0,1], leaves every       *)
(* channel of every current pixel between its previous value and its       *)
(* target, bounds included, and within 0 .. 255                            *)
Between(x, a, b) == (a <= x /\ x <= b) \/ (b <= x /\ x <= a)

ChannelsBetween(current, next, target) ==
    \A i \in DOMAIN current : \A k \in 1 .. 3 :
        /\ Between(Channels(next[i])[k], Channels(current[i])[k], Channels(target[i])[k])
        /\ Channels(next[i])[k] \in 0 .. 255

C10_SmoothDrawStaysBetween ==
    [][lastOp'.op = "drawOnRingsSmooth" =>
          /\ ChannelsBetween(currentOuterRing, currentOuterRing', targetOuterring)
          /\ ChannelsBetween(currentInnerRing, currentInnerRing', targetInnerRing)
          /\ currentOuterRing' \in [OuterIdx -> 0 .. 16777215]
          /\ currentInnerRing' \in [InnerIdx -> 0 .. 16777215]]_vars

(* over the drawn face, with the target flushed and pixel 0 set to white:  *)
(* a half step up toward white and a half step down toward black           *)
C10_Witness ==
    /\ lastOp = Op("drawOnRingsSmooth", <<Half>>)
    /\ targetOuterring[0] = White
    /\ currentOuterRing[0] = Color24bit(127, 127, 127)
    /\ targetOuterring[2] = Black
    /\ currentOuterRing[2] = Color24bit(0, 100, 100)

(* C12: flushOuterRing sets every entry of the outer target to 0 and       *)
(* flushInnerRing every entry of the inner target; each leaves the other   *)
(* ring's target, both current buffers, the brightnesses, the offsets and  *)
(* the current limit as they were                                          *)
C12_FlushClearsOneTarget ==
    [][/\ lastOp'.op = "flushOuterRing" =>
            /\ targetOuterring' = [i \in OuterIdx |-> 0]
            /\ targetInnerRing' = targetInnerRing
       /\ lastOp'.op = "flushInnerRing" =>
            /\ targetInnerRing' = [i \in InnerIdx |-> 0]
            /\ targetOuterring' = targetOuterring
       /\ lastOp'.op \in {"flushOuterRing", "flushInnerRing"} =>
            /\ currentOuterRing' = currentOuterRing
            /\ currentInnerRing' = currentInnerRing
            /\ brightnessOuterRing' = brightnessOuterRing
            /\ brightnessInnerRing' = brightnessInnerRing
            /\ offsetOuterRing' = offsetOuterRing
            /\ offsetInnerRing' = offsetInnerRing
            /\ currentLimit' = currentLimit]_vars

(* the outer target of the drawn face flushed: the hour pixel is still in  *)
(* the inner target and the face still in both current buffers             *)
C12_Witness ==
    /\ lastOp.op = "flushOuterRing"
    /\ targetOuterring = [i \in OuterIdx |-> 0]
    /\ targetInnerRing[2] = ColorHoursDefault
    /\ currentOuterRing[1] = ColorMinutesDefault
    /\ currentInnerRing[2] = ColorHoursDefault

(* C13: no draw, throttled or not, changes the stored brightness:          *)
(* getBrightnessOuterRing and getBrightnessInnerRing return 255 at first   *)
(* and after every call the value last passed to the setBrightness call    *)
(* of their ring                                                           *)
C13_DrawKeepsStoredBrightness ==
    /\ getBrightnessOuterRing = 255
    /\ getBrightnessInnerRing = 255
    /\ [][/\ getBrightnessOuterRing' =
               IF lastOp'.op = "setBrightnessOuterRing"
               THEN lastOp'.arg[1] ELSE getBrightnessOuterRing
          /\ getBrightnessInnerRing' =
               IF lastOp'.op = "setBrightnessInnerRing"
               THEN lastOp'.arg[1] ELSE getBrightnessInnerRing]_vars

(* a throttled frame: the outer driver runs below the 254 that was set and *)
(* is still stored                                                         *)
C13_Witness ==
    /\ lastOp.op \in DrawOps
    /\ getBrightnessOuterRing = 254
    /\ getBrightnessInnerRing = 255
    /\ outerRing.brightness < 254
    /\ innerRing.brightness < 255

(* C15: for r, g, b in 0 .. 255, Color24bit(r, g, b) is                    *)
(* (r << 16) | (g << 8) | b, is below 2^24, and (c >> 16) & 0xFF,          *)
(* (c >> 8) & 0xFF, c & 0xFF give back r, g and b                          *)
C15_Color24bitPacksAndUnpacks ==
    lastOp.op = "Color24bit" =>
        LET r == lastOp.arg[1]
            g == lastOp.arg[2]
            b == lastOp.arg[3]
        IN  /\ ret = (r * 65536) + (g * 256) + b
            /\ ret < 16777216
            /\ (ret \div 65536) % 256 = r
            /\ (ret \div 256) % 256 = g
            /\ ret % 256 = b

(* three different channels packed *)
C15_Witness ==
    /\ lastOp = Op("Color24bit", <<255, 1, 128>>)
    /\ ret = 16712064

(* C16: interpolateColor24bit(c1, c2, 0.0) is c1 and                       *)
(* interpolateColor24bit(c1, c2, 1.0) is c2, for all 24-bit colours        *)
C16_InterpolateEndpoints ==
    lastOp.op = "interpolateColor24bit" =>
        /\ lastOp.arg[3] = Zero => ret = lastOp.arg[1]
        /\ lastOp.arg[3] = One => ret = lastOp.arg[2]

(* factor 1 between colours whose channels lie on both sides of each other *)
C16_Witness ==
    /\ lastOp = Op("interpolateColor24bit", <<ColorSecondsDefault, ColorMinutesDefault, One>>)
    /\ ret = ColorMinutesDefault

(* C17: calcEstimatedLEDCurrent(color, B) is                               *)
(* floor(floor(20 (r + g + b) / 255) B / 255), lies in 0 .. 60 and is 60   *)
(* for white at brightness 255 only                                        *)
C17_EstimateIsTwiceTruncated ==
    lastOp.op = "calcEstimatedLEDCurrent" =>
        LET color == lastOp.arg[1]
            B == lastOp.arg[2]
            sum == ((color \div 65536) % 256) + ((color \div 256) % 256) + (color % 256)
        IN  /\ ret = (((20 * sum) \div 255) * B) \div 255
            /\ ret \in 0 .. 60
            /\ ret = 60 <=> (color = 16777215 /\ B = 255)

(* a colour and brightness where each of the two divisions truncates *)
C17_Witness ==
    /\ lastOp = Op("calcEstimatedLEDCurrent", <<Color24bit(13, 254, 255), 254>>)
    /\ ret = 39


(* C14: in every state reached through setup()'s                           *)
(* loadBrightnessSettingsFromEEPROM and any sequence of 'setting'          *)
(* commands, whatever values are stored or submitted, both configured      *)
(* brightnesses are at least 10                                            *)
C14_BrightnessAtLeastTen ==
    /\ brightnessInnerRing >= 10
    /\ brightnessOuterRing >= 10
    /\ brightnessInnerRing <= 255
    /\ brightnessOuterRing <= 255

(* a 'setting' request submitting 0 and 256 has been handled *)
C14_Witness ==
    /\ iter.cmd = [name |-> "setting", arg |-> <<22, 0, 7, 0, 0, 256>>]
    /\ brightnessInnerRing = 10
    /\ brightnessOuterRing = 10
    /\ eepromData.BRIGHTNESS_INNER = 10
    /\ eepromData.BRIGHTNESS_OUTER = 10


(* an iteration that reached the rendering steps with nightMode or ledOff  *)
(* set did not run showTimeOnClock, flushed both targets and drew them     *)
(* instantly: targets and displayed buffers are black at its end           *)
DarkIterationIsBlack ==
    iter.dark =>
        /\ "clock" \notin iter.ran
        /\ "frame" \in iter.ran
        /\ targetOuterring = Flushed(OuterIdx)
        /\ targetInnerRing = Flushed(InnerIdx)
        /\ currentOuterRing = Flushed(OuterIdx)
        /\ currentInnerRing = Flushed(InnerIdx)

(* no frame shown while nightMode or ledOff was set has a lit pixel *)
NoLitFrameInTheDark ==
    \A i \in DOMAIN iter.frames : iter.frames[i].dark => ~iter.frames[i].lit

(* C11: in every loop iteration that reaches the rendering steps with      *)
(* nightMode or ledOff true, showTimeOnClock is not executed, both targets *)
(* are flushed and drawn instantly, so that every pixel of both displayed  *)
(* buffers is black at the end of the iteration; and no non-black frame is *)
(* ever emitted while nightMode or ledOff is true                          *)
C11_DarkMeansBlack == DarkIterationIsBlack /\ NoLitFrameInTheDark


(* C18: after a failed NTP update the next attempt, in whatever state the  *)
(* failure happened (the first attempts after setup() and after blocking   *)
(* calls included), comes at least 10000 ms later: there is no attempt in  *)
(* the next iteration, and two failed attempts in a row are never less     *)
(* than 10 s apart                                                         *)
C18_FailedNtpUpdateWaitsTenSeconds ==
    [][(iter'.ntp # "none" /\ hist.lastFailedAt >= 0) =>
          iter'.t - hist.lastFailedAt >= NTP_RETRY_EXTENSION]_vars


(* C19: the watchdog restarts the clock exactly when 30 NTP update         *)
(* attempts in a row have failed: a failed attempt decrements              *)
(* watchdogCounter by one, a successful one sets it to 30, the restart     *)
(* happens in the attempt that brings it to 0, and in every state before   *)
(* a restart 0 < watchdogCounter <= 30                                     *)
C19_WatchdogCountsFailuresInARow ==
    /\ watchdogCounter = WATCHDOG_START
    /\ [][/\ watchdogCounter' \in 1 .. WATCHDOG_START
          /\ (iter'.ntp = "failed" /\ ~iter'.restarted) =>
                 watchdogCounter' = watchdogCounter - 1
          /\ iter'.ntp = "ok" => watchdogCounter' = WATCHDOG_START
          /\ iter'.ntp = "none" => watchdogCounter' = watchdogCounter
          /\ iter'.restarted <=>
                 (iter'.ntp = "failed" /\ hist.failsInARow + 1 = WATCHDOG_START)
          /\ iter'.restarted => (watchdogCounter = 1 /\ hist'.restarts = hist.restarts + 1)
          /\ ~iter'.restarted => hist'.restarts = hist.restarts
          /\ watchdogCounter' = WATCHDOG_START - hist'.failsInARow]_vars

(* the clock has restarted after its thirtieth failed attempt in a row *)
C19_Witness ==
    /\ iter.restarted
    /\ iter.ntp = "failed"
    /\ iter.fails = WATCHDOG_START
    /\ hist.restarts = 1
    /\ watchdogCounter = WATCHDOG_START
    /\ now \in RestartSetupMillis


(* the period of each task of loop() *)
PeriodOf(task) ==
    CASE task = "heartbeat" -> PERIOD_HEARTBEAT
      [] task = "clock" -> PERIOD_CLOCK_UPDATE
      [] task = "frame" -> PERIOD_LED_UPDATE
      [] task = "ntp" -> PERIOD_NTP_UPDATE
      [] task = "nightcheck" -> PERIOD_NIGHTMODE_CHECK

(* the task runs in the iteration just made, sooner after its last run     *)
(* than its period                                                         *)
RunsEarly(task) ==
    /\ task \in iter'.ran
    /\ hist.lastRun[task] >= 0
    /\ iter'.t - hist.lastRun[task] <= PeriodOf(task)

(* C20: every periodic task of loop() (clock update, frame emission, NTP   *)
(* update, heartbeat, night-mode check) runs only in an iteration where    *)
(* more than its period has passed since it last ran; in particular two    *)
(* frames are never emitted closer together than PERIOD_LED_UPDATE, also   *)
(* while nightMode or ledOff is set                                        *)
C20_TasksRunOnlyWhenTheirPeriodHasPassed ==
    [][\A task \in Tasks : ~RunsEarly(task)]_vars


(* the outer target after the calls cs made on LEDRings, from target:      *)
(* entry i is what the last flush or accepted write of i left              *)
ReplayedOuter(target, cs) ==
    [i \in OuterIdx |->
        LET touching == {k \in DOMAIN cs :
                            /\ cs[k].on = "ledrings"
                            /\ \/ cs[k].call = "flushOuterRing"
                               \/ /\ cs[k].call = "setPixelOuterRing"
                                  /\ cs[k].arg[1] = i}
        IN  IF touching = {} THEN target[i]
            ELSE LET last == CHOOSE k \in touching : \A j \in touching : j <= k
                 IN  IF cs[last].call = "flushOuterRing" THEN 0 ELSE cs[last].arg[2]]

(* the outer ring is flushed before any pixel of it is written *)
FlushesOuterFirst(cs) ==
    \E k \in DOMAIN cs :
        /\ cs[k] = Call("ledrings", "flushOuterRing", <<>>)
        /\ \A j \in DOMAIN cs : cs[j].call = "setPixelOuterRing" => k < j

(* C21: the displayed buffers of both rings are modified by drawOnRings    *)
(* only: showHour, showMinutes, showTimeOnClock, the flushes, setPixel*,   *)
(* setBrightness*, setOffsets and setCurrentLimit leave every entry of     *)
(* both unchanged; and showMinutes flushes the outer target to black       *)
(* before it writes any pixel                                              *)
C21_OnlyDrawWritesCurrent ==
    [][/\ lastOp'.op \notin DrawOps =>
             /\ currentOuterRing' = currentOuterRing
             /\ currentInnerRing' = currentInnerRing
       /\ lastOp'.op \in {"showMinutes", "showTimeOnClock"} =>
             /\ FlushesOuterFirst(calls')
             /\ targetOuterring' = ReplayedOuter(targetOuterring, calls')]_vars

(* showMinutes has rewritten the outer target, next to displayed buffers   *)
(* that still show the face of 3:45                                        *)
C21_Witness ==
    /\ lastOp.op = "showMinutes"
    /\ lastOp.arg[2] = 30000
    /\ Len(calls) = OUTER_RING_LED_COUNT + 1
    /\ currentOuterRing = FaceOuter
    /\ currentInnerRing = FaceInner
    /\ targetOuterring # FaceOuter
    /\ targetOuterring[0] # White


(* the positions in the call log cs of the calls of method name *)
CallsOf(cs, name) == {k \in DOMAIN cs : cs[k].call = name}

(* C22: within every drawOnRings call, first come all pixel writes of both *)
(* rings, carrying the blended colours current is updated to, then the     *)
(* brightness of this frame (throttled or configured) is applied to both   *)
(* drivers, then come exactly one show() of the outer and one of the inner *)
(* ring; no show() precedes the frame's brightness                         *)
C22_DrawWritesThenDimsThenShows ==
    lastOp.op \in DrawOps =>
        LET totalCurrent == TotalCurrent(currentOuterRing, currentInnerRing,
                                         brightnessOuterRing, brightnessInnerRing)
            writes == CallsOf(calls, "setPixelColor")
            dims == CallsOf(calls, "setBrightness")
            shows == CallsOf(calls, "show")
        IN  /\ DOMAIN calls = writes \cup dims \cup shows
            /\ \A w \in writes, d \in dims, s \in shows : w < d /\ d < s
            /\ Cardinality(writes) = OUTER_RING_LED_COUNT + INNER_RING_LED_COUNT
            /\ \A i \in OuterIdx :
                  \E w \in writes : /\ calls[w].on = "outerRing"
                                    /\ calls[w].arg[2] = currentOuterRing[i]
                                    /\ w = i + 1
            /\ \A i \in InnerIdx :
                  \E w \in writes : /\ calls[w].on = "innerRing"
                                    /\ calls[w].arg[2] = currentInnerRing[i]
                                    /\ w = OUTER_RING_LED_COUNT + i + 1
            /\ {calls[d] : d \in dims} =
                 { Call("outerRing", "setBrightness",
                        <<IF totalCurrent > currentLimit
                          THEN U8((brightnessOuterRing * currentLimit) \div totalCurrent)
                          ELSE brightnessOuterRing>>),
                   Call("innerRing", "setBrightness",
                        <<IF totalCurrent > currentLimit
                          THEN U8((brightnessInnerRing * currentLimit) \div totalCurrent)
                          ELSE brightnessInnerRing>>) }
            /\ Cardinality(dims) = 2
            /\ Cardinality(shows) = 2
            /\ {calls[s].on : s \in shows} = {"outerRing", "innerRing"}

(* a throttled frame has been drawn: the brightness applied before the     *)
(* two show() is below the configured one                                  *)
C22_Witness ==
    /\ lastOp.op = "drawOnRingsInstant"
    /\ Len(calls) = OUTER_RING_LED_COUNT + INNER_RING_LED_COUNT + 4
    /\ calls[OUTER_RING_LED_COUNT + INNER_RING_LED_COUNT + 1].call = "setBrightness"
    /\ calls[OUTER_RING_LED_COUNT + INNER_RING_LED_COUNT + 1].arg[1] < brightnessOuterRing
    /\ calls[OUTER_RING_LED_COUNT + INNER_RING_LED_COUNT + 4].call = "show"
    /\ currentLimit = 1000


(* the brightness a ring configured to brightness emits for the displayed  *)
(* colours, the configured brightnesses and the limit of this state        *)
EmittedFor(brightness) ==
    IF ConfiguredEstimate > currentLimit
    THEN U8((brightness * currentLimit) \div ConfiguredEstimate)
    ELSE brightness

(* C23: the brightness emitted for a frame is a function of the frame's    *)
(* displayed colours, the configured brightness of each ring and           *)
(* currentLimit alone: whatever came before, a previously throttled frame  *)
(* included, states with the same displayed buffers, configured            *)
(* brightnesses and limit have emitted the same brightness on both rings   *)
C23_FrameBrightnessHasNoMemory ==
    lastOp.op \in DrawOps =>
        /\ outerRing.brightness = EmittedFor(brightnessOuterRing)
        /\ innerRing.brightness = EmittedFor(brightnessInnerRing)

(* after the throttled frame the limit was raised, and the next frame is   *)
(* emitted at the configured brightness                                    *)
C23_Witness ==
    /\ steps = 2
    /\ lastOp.op = "drawOnRingsInstant"
    /\ currentLimit = DEFAULT_CURRENT_LIMIT
    /\ currentOuterRing = FaceOuter
    /\ FrameBrightness(255, ThrottledLimit, ConfiguredEstimate) < 255
    /\ outerRing.brightness = 255
    /\ innerRing.brightness = 255


(* C24: on every showMinutes call, the first after boot and the first      *)
(* after a night-mode or LED-off period included, the within-minute        *)
(* fraction (ms since the last observed minute change / 60000) lies in     *)
(* [0,1), so activePixelSeconds and activePixelMinutes lie in 0 .. 90 and  *)
(* the head of the seconds comet is drawn on the ring                      *)
C24_MinuteFractionBelowOne ==
    sm.called =>
        /\ sm.timeSinceLastMinuteChange >= 0
        /\ sm.timeSinceLastMinuteChange < MILLIS_PER_MINUTE
        /\ sm.activePixelSeconds \in OuterIdx
        /\ sm.activePixelMinutes \in OuterIdx
        /\ "clock" \in iter.ran =>
              targetOuterring[sm.activePixelSeconds] =
                  interpolateColor24bit(Black, sm.colorSeconds, sm.pixelProgressSeconds)


(* C25: showHour(0, color), the hour of midnight, writes nothing outside   *)
(* the inner target: the index hour-1 (65535 as uint16_t) is rejected by   *)
(* the range check of setPixelInnerRing, the error is logged, and the      *)
(* inner target is left entirely black                                     *)
C25_MidnightHourLightsNothing ==
    [][(lastOp'.op = "showHour" /\ lastOp'.arg[1] = 0) =>
            /\ calls'[Len(calls')] =
                  Call("ledrings", "setPixelInnerRing", <<65535, lastOp'.arg[2]>>)
            /\ errorLogs' = errorLogs + 1
            /\ targetInnerRing' = Flushed(InnerIdx)
            /\ UNCHANGED <<targetOuterring, currentOuterRing, currentInnerRing, hwVars>>]_vars

(* showHour(0, white) over a face that shows 3 o'clock *)
C25_Witness ==
    /\ lastOp = Op("showHour", <<0, White>>)
    /\ errorLogs = 1
    /\ \A i \in InnerIdx : targetInnerRing[i] = Black
    /\ currentInnerRing[2] = ColorHoursDefault


(* C26: after every night-mode check, nightMode is true exactly when the   *)
(* time of day (hours*60 + minutes) lies in the configured window from the *)
(* start time (inclusive) to the end time (exclusive); a window with start *)
(* later than end wraps past midnight, a window with start = end is empty; *)
(* the value does not depend on what nightMode was before                  *)
NightWindowStartInclusive(current, start, end) ==
    IF start < end THEN start <= current /\ current < end
    ELSE IF start > end THEN current >= start \/ current < end
    ELSE FALSE

C26_NightModeIsTheWindow ==
    "nightcheck" \in iter.ran =>
        nightMode =
            NightWindowStartInclusive(
                HoursAt(Sketch, iter.t) * 60 + MinutesAt(Sketch, iter.t),
                nightModeStartHour * 60 + nightModeStartMin,
                nightModeEndHour * 60 + nightModeEndMin)

(* the part that holds: the window without its first minute *)
NightModeIsTheOpenWindow ==
    "nightcheck" \in iter.ran =>
        nightMode =
            LET current == HoursAt(Sketch, iter.t) * 60 + MinutesAt(Sketch, iter.t)
                start == nightModeStartHour * 60 + nightModeStartMin
                end == nightModeEndHour * 60 + nightModeEndMin
            IN  NightWindowStartInclusive(current, start, end) /\ current # start


(* C27: every configuration value accepted by a command survives a         *)
(* restart: after any sequence of col_hours, col_minutes, col_seconds and  *)
(* setting commands, a restart (the three loaders run over what reached    *)
(* the flash) yields the three colours, the night-mode start and end times *)
(* and the ring brightnesses that were in effect before it                 *)
Configuration(S) ==
    << S.colorHours, S.colorMinutes, S.colorSeconds,
       S.nightModeStartHour, S.nightModeStartMin,
       S.nightModeEndHour, S.nightModeEndMin,
       S.brightnessInnerRing, S.brightnessOuterRing >>

C27_ConfigurationSurvivesRestart ==
    Configuration(restart(Sketch, now, 2200)) = Configuration(Sketch)

(* the part that holds: the colours, committed by setColor*, survive       *)
(* unless they are darker than getRGBColorFromEEPROM accepts                *)
Colours(S) == << S.colorHours, S.colorMinutes, S.colorSeconds >>

ColoursSurviveRestart == Colours(restart(Sketch, now, 2200)) = Colours(Sketch)


(* C28: as long as loop() keeps iterating and time advances, rendering     *)
(* resumes: from any state in which nightMode and ledOff are false and     *)
(* stay false, an iteration follows that updates the clock face            *)
(* (showTimeOnClock with the hour and minute of the time source) and then  *)
(* emits a frame, whether NTP updates fail or not; in the model it follows *)
(* within PERIOD_CLOCK_UPDATE plus one idle pass of loop()                 *)
Rendering == ~nightMode /\ ~ledOff

FaceRendered ==
    /\ {"clock", "frame"} \subseteq iter.ran
    /\ ~iter.dark
    /\ sm.minutes = MinutesAt(Sketch, iter.t)
    /\ targetInnerRing = ShowHourTarget(HoursAt(Sketch, iter.t), colorHours)
    /\ calls[Len(calls)] = Call("innerRing", "show", <<>>)

C28_RenderingResumes ==
    [](( Rendering /\ now + PERIOD_CLOCK_UPDATE + 10 <= MaxLiveMillis )
          => <>( FaceRendered \/ ~Rendering ))

(* an iteration of the rendering clock whose NTP update fails, short of a  *)
(* restart, has rendered the face all the same                             *)
FailedUpdateRendersToo ==
    (iter.ntp = "failed" /\ ~iter.restarted /\ ~iter.dark
       /\ iter.t - hist.lastRun["clock"] > PERIOD_CLOCK_UPDATE) => FaceRendered

(* the LEDs switched on again by request, the face rendered in the same   *)
(* iteration, while the last NTP update has failed                         *)
C28_Witness ==
    /\ FaceRendered
    /\ Rendering
    /\ iter.cmd = [name |-> "ledoff", arg |-> <<"0">>]
    /\ hist.failsInARow = 1
    /\ watchdogCounter = WATCHDOG_START - 1

(* C29: in drawOnRings the 16-bit accumulators totalCurrentOuterRing and   *)
(* totalCurrentInnerRing and their sum totalCurrent never wrap modulo      *)
(* 2^16: whatever the colours and brightnesses of the 91 + 12 pixels, the  *)
(* true sum is at most 6180, so what is compared with currentLimit is the  *)
(* exact estimate                                                          *)
RECURSIVE ExactCurrent(_, _, _, _)
ExactCurrent(colors, brightness, lo, hi) ==
    IF lo = hi THEN calcEstimatedLEDCurrent(colors[lo], brightness)
    ELSE LET mid == (lo + hi) \div 2
         IN  ExactCurrent(colors, brightness, lo, mid)
               + ExactCurrent(colors, brightness, mid + 1, hi)

C29_CurrentSumDoesNotWrap ==
    lastOp.op \in DrawOps =>
        LET exactOuter == ExactCurrent(currentOuterRing, brightnessOuterRing,
                                       0, OUTER_RING_LED_COUNT - 1)
            exactInner == ExactCurrent(currentInnerRing, brightnessInnerRing,
                                       0, INNER_RING_LED_COUNT - 1)
        IN  /\ exactOuter <= 60 * OUTER_RING_LED_COUNT
            /\ exactInner <= 60 * INNER_RING_LED_COUNT
            /\ exactOuter + exactInner <= 6180
            /\ TotalCurrentOf(currentOuterRing, brightnessOuterRing,
                              OUTER_RING_LED_COUNT) = exactOuter
            /\ TotalCurrentOf(currentInnerRing, brightnessInnerRing,
                              INNER_RING_LED_COUNT) = exactInner
            /\ TotalCurrent(currentOuterRing, currentInnerRing,
                            brightnessOuterRing, brightnessInnerRing)
                 = exactOuter + exactInner

(* both rings drawn white all over at full brightness: 103 LEDs of 60 mA,  *)
(* over the limit                                                          *)
C29_Witness ==
    /\ lastOp.op \in DrawOps
    /\ brightnessOuterRing = 255
    /\ brightnessInnerRing = 255
    /\ TotalCurrent(currentOuterRing, currentInnerRing,
                    brightnessOuterRing, brightnessInnerRing) = 6180
    /\ currentLimit = ThrottledLimit
    /\ outerRing.brightness = ThrottledBrightness(255, ThrottledLimit, 6180)

============================================================================
